---- MODULE Spec2Model ----
(***************************************************************************)
(* Model of the usage-metrics store (api/metrics.py) and of the            *)
(* conversation-history store (api/history.py) of rag_chat.                *)
(*                                                                         *)
(* Each store is one SQLite file.  A store is modelled as a record holding *)
(* its schema (the set of table and index names) and its tables (sequences *)
(* of rows in rowid order).  A connection's open transaction is a private  *)
(* working copy of the store; commit publishes it, close discards it.      *)
(***************************************************************************)
EXTENDS Integers, Sequences, FiniteSets, TLC

VARIABLES
    metrics_db,     \* committed content of metrics.db
    history_db,     \* committed content of conversation_history.db
    now,            \* the store's clock (CURRENT_TIMESTAMP), in ticks
    last,           \* the last completed call: its name, arguments and outcome
    proc,           \* concurrent record_query callers: position and open transaction
    lock            \* the connection holding SQLite's write lock on metrics.db

vars == <<metrics_db, history_db, now, last, proc, lock>>

-----------------------------------------------------------------------------
(* Bounds of the model *)

MaxQueries == 2
MaxConversations == 2
MaxClock == 2
TicksPerDay == 1
MaxLimit == 2
MaxDays == 1
MaxErrors == 2
MaxRanked == 3

-----------------------------------------------------------------------------
(* Python values *)

\* None / a present value
None == <<>>
Some(x) == <<x>>

\* Python truthiness of an Optional[str] and of an Optional[int]
TruthyStr(o) == o # None /\ o[1] # ""
TruthyInt(o) == o # None /\ o[1] # 0

Min(a, b) == IF a <= b THEN a ELSE b

Range(s) == {s[i] : i \in 1..Len(s)}

\* the first n elements of s (all of s when n >= Len(s))
Prefix(s, n) == SubSeq(s, 1, Min(n, Len(s)))

\* every way of visiting the positions of keys in ascending key order;
\* positions with equal keys come in any order (SQL leaves the order of
\* rows that tie on the ORDER BY expression undefined)
AscOrders(keys) ==
    LET n == Len(keys)
    IN {f \in [1..n -> 1..n] :
           /\ \A i, j \in 1..n : i # j => f[i] # f[j]
           /\ \A i \in 1..n : i < n => keys[f[i]] <= keys[f[i+1]]}

\* the same, in descending key order
DescOrders(keys) == AscOrders([i \in 1..Len(keys) |-> 0 - keys[i]])

\* Python's round(): num/den to the nearest integer, ties to the even one
RoundHalfEven(num, den) ==
    LET q == num \div den
        r == num % den
    IN IF 2 * r < den THEN q
       ELSE IF 2 * r > den THEN q + 1
       ELSE IF q % 2 = 0 THEN q ELSE q + 1

RECURSIVE SumSeq(_)
SumSeq(s) == IF s = <<>> THEN 0 ELSE Head(s) + SumSeq(Tail(s))

-----------------------------------------------------------------------------
(* Inputs *)

UserIds == {"alice", "bob"}
OptUserIds == {None} \cup {Some(u) : u \in UserIds}

Entry(s, p) == [source |-> s, page |-> p]

\* lists of {source, page} provenance entries
SourceLists ==
    { <<>>,
      <<Entry(Some("a.pdf"), Some(1))>>,
      <<Entry(Some("a.pdf"), Some(1)), Entry(Some("b.pdf"), None)>>,
      <<Entry(Some("b.pdf"), Some(2)), Entry(Some("a.pdf"), Some(1))>> }

\* arguments of record_query
QueryArgs(users, outcomes, lists) ==
    [user_id : users,
     question : {"q?"},
     top_k : {4},
     response_time_ms : {120},
     success : outcomes,
     sources : lists,
     error_message : {None}]

\* the arguments drawn when the calls themselves are checked, when the
\* statistics are checked and when the document ranking is checked
RecordArgs == QueryArgs({None, Some("alice")}, {TRUE}, SourceLists)
StatsArgs == QueryArgs({None, Some("alice")}, BOOLEAN, {<<Entry(Some("a.pdf"), Some(1))>>})
DocsArgs == QueryArgs({Some("alice")}, {TRUE}, SourceLists)

-----------------------------------------------------------------------------
(* Schema of metrics.db *)

MetricsTables == {"queries", "errors", "document_usage"}
MetricsIndexes == {"idx_queries_user_id", "idx_queries_created_at",
                   "idx_queries_success", "idx_errors_created_at",
                   "idx_doc_usage_source", "idx_doc_usage_query_id"}

EmptyMetricsDb ==
    [schema |-> {}, queries |-> <<>>, errors |-> <<>>, document_usage |-> <<>>]

\* CREATE TABLE / CREATE INDEX without IF NOT EXISTS: fails on an existing name
CreatePlain(st, name) ==
    IF st.raised THEN st
    ELSE IF name \in st.schema THEN [st EXCEPT !.raised = TRUE]
    ELSE [st EXCEPT !.schema = @ \cup {name}]

\* CREATE TABLE IF NOT EXISTS / CREATE INDEX IF NOT EXISTS
CreateIfNotExists(st, name) ==
    IF st.raised THEN st
    ELSE [st EXCEPT !.schema = @ \cup {name}]

RECURSIVE CreateAll(_, _)
CreateAll(st, names) ==
    IF names = <<>> THEN st
    ELSE CreateAll(CreateIfNotExists(st, Head(names)), Tail(names))

MetricsDdl ==
    <<"queries", "errors", "document_usage",
      "idx_queries_user_id", "idx_queries_created_at", "idx_queries_success",
      "idx_errors_created_at", "idx_doc_usage_source", "idx_doc_usage_query_id">>

\* init_metrics_db: the outcome [schema, raised] of running the DDL on a store
init_metrics_db(db) ==
    CreateAll([schema |-> db.schema, raised |-> FALSE], MetricsDdl)

-----------------------------------------------------------------------------
(* record_query *)

\* INSERT OR REPLACE INTO queries: overwrites the newest row instead of adding
InsertOrReplaceQuery(txn, a, t) ==
    LET row == [id |-> IF txn.queries = <<>> THEN 1 ELSE Len(txn.queries),
                user_id |-> a.user_id,
                question |-> a.question,
                top_k |-> a.top_k,
                response_time_ms |-> a.response_time_ms,
                success |-> a.success,
                error_message |-> a.error_message,
                sources_count |-> Len(a.sources),
                created_at |-> t]
    IN IF txn.queries = <<>> THEN [txn EXCEPT !.queries = <<row>>]
       ELSE [txn EXCEPT !.queries[Len(txn.queries)] = row]

\* INSERT INTO queries (...) VALUES (...): the row gets the next rowid and
\* the store's current timestamp
InsertQuery(txn, a, t) ==
    [txn EXCEPT !.queries = Append(@,
        [id |-> Len(@) + 1,
         user_id |-> a.user_id,
         question |-> a.question,
         top_k |-> a.top_k,
         response_time_ms |-> a.response_time_ms,
         success |-> a.success,
         error_message |-> a.error_message,
         sources_count |-> Len(a.sources),
         created_at |-> t])]

\* cursor.lastrowid after the INSERT INTO queries
LastRowId(txn) == txn.queries[Len(txn.queries)].id

\* INSERT INTO document_usage (query_id, source_path, page) VALUES (?, ?, ?)
InsertDocumentUsage(txn, qid, source, t) ==
    [txn EXCEPT !.document_usage = Append(@,
        [id |-> Len(@) + 1,
         query_id |-> qid,
         source_path |-> source.source,
         page |-> source.page,
         created_at |-> t])]

\* the loop over sources leaving out the first entry
RECURSIVE InsertSourcesSkipFirst(_, _, _, _, _)
InsertSourcesSkipFirst(txn, qid, sources, k, t) ==
    IF k <= 1 \/ Len(sources) <= 1 THEN txn
    ELSE InsertSourcesSkipFirst(InsertDocumentUsage(txn, qid, sources[2], t),
                                qid, Tail(sources), k - 1, t)

\* the loop over sources, stopped after its first k entries
RECURSIVE InsertSources(_, _, _, _, _)
InsertSources(txn, qid, sources, k, t) ==
    IF k = 0 \/ sources = <<>> THEN txn
    ELSE InsertSources(InsertDocumentUsage(txn, qid, Head(sources), t),
                       qid, Tail(sources), k - 1, t)

\* conn.commit(): the transaction's changes become the store's content
Commit(db, txn) == txn

\* conn.close() with a transaction still open: its changes are dropped
CloseCommits(db, txn) == txn
Close(db, txn) == db

\* The statements of record_query on a store whose schema exists.
\* fail_at = 0: every statement succeeds.  fail_at = 1: the INSERT INTO
\* queries raises.  fail_at = 1 + i: the i-th INSERT INTO document_usage
\* raises.  fail_at = Len(sources) + 2: conn.commit() raises.
RecordQueryTxn(db, a, t, fail_at) ==
    LET n == Len(a.sources)
        withQuery == InsertQuery(db, a, t)
        qid == LastRowId(withQuery)
        done == IF fail_at = 0 \/ fail_at > n + 1 THEN n ELSE fail_at - 2
        txn == IF fail_at = 1 THEN db
               ELSE InsertSources(withQuery, qid, a.sources, done, t)
    IN IF fail_at = 0
       THEN [db |-> Commit(db, txn), raised |-> FALSE, id |-> Some(qid)]
       ELSE [db |-> Close(db, txn), raised |-> TRUE, id |-> None]

\* record_query: init_metrics_db() commits the schema on its own connection,
\* then the inserts run in one transaction on a second connection
record_query(db, a, t, fail_at) ==
    LET st == init_metrics_db(db)
    IN IF st.raised
       THEN [db |-> [db EXCEPT !.schema = st.schema], raised |-> TRUE, id |-> None]
       ELSE RecordQueryTxn([db EXCEPT !.schema = st.schema], a, t, fail_at)

-----------------------------------------------------------------------------
(* SQL text built by the aggregation functions.  A statement is the        *)
(* sequence of the tokens that follow "FROM <table>".                      *)

UserCond == "user_id = ?"
DaysCond == "created_at >= datetime('now', '-' || ? || ' days')"
SuccessCond == "success = 1"
FailedCond == "success = 0"
GroupByTopK == "GROUP BY top_k ORDER BY count DESC LIMIT 1"
Conds == {UserCond, DaysCond, SuccessCond, FailedCond}

\* where_clauses: one entry per filter whose argument is truthy
WhereClauses(user_id, days) ==
    (IF TruthyStr(user_id) THEN <<UserCond>> ELSE <<>>)
    \o (IF TruthyInt(days) THEN <<DaysCond>> ELSE <<>>)

\* " AND ".join(clauses)
RECURSIVE JoinAnd(_)
JoinAnd(clauses) ==
    IF Len(clauses) <= 1 THEN clauses
    ELSE <<Head(clauses), "AND">> \o JoinAnd(Tail(clauses))

\* where_sql = "WHERE " + " AND ".join(where_clauses) if where_clauses else ""
WhereSql(clauses) ==
    IF clauses # <<>> THEN <<"WHERE">> \o JoinAnd(clauses) ELSE <<>>

\* cond (AND cond)* followed by nothing or by the GROUP BY tail
RECURSIVE ParsesConds(_)
ParsesConds(toks) ==
    /\ toks # <<>>
    /\ Head(toks) \in Conds
    /\ \/ Len(toks) = 1
       \/ Tail(toks) = <<GroupByTopK>>
       \/ /\ Len(toks) >= 3
          /\ toks[2] = "AND"
          /\ ParsesConds(Tail(Tail(toks)))

\* whether SQLite accepts the statement: after the table name comes nothing,
\* the GROUP BY tail, or WHERE and a conjunction of conditions
SqlParses(toks) ==
    \/ toks = <<>>
    \/ toks = <<GroupByTopK>>
    \/ Head(toks) = "WHERE" /\ ParsesConds(Tail(toks))

\* the conditions with "success = 1" taken as true of every row
CondHoldsIgnoringSuccess(c, r, params, t) ==
    IF c = UserCond THEN r.user_id = params.user_id
    ELSE IF c = DaysCond THEN r.created_at >= t - params.days[1] * TicksPerDay
    ELSE IF c = SuccessCond THEN TRUE
    ELSE ~r.success

\* whether row r of queries satisfies condition c; params are the bound values
CondHolds(c, r, params, t) ==
    IF c = UserCond THEN r.user_id = params.user_id
    ELSE IF c = DaysCond THEN r.created_at >= t - params.days[1] * TicksPerDay
    ELSE IF c = SuccessCond THEN r.success
    ELSE ~r.success

\* the rows of queries a statement selects, in rowid order
SelectQueries(db, toks, params, t) ==
    SelectSeq(db.queries,
              LAMBDA r : \A c \in Range(toks) \cap Conds : CondHolds(c, r, params, t))

\* round((successful_queries / total_queries * 100) if total_queries > 0 else 0, 2),
\* in hundredths of a percent; without the guard the division raises
SuccessRateUnguarded(successful, total) ==
    IF total = 0 THEN [raised |-> TRUE, rate |-> 0]
    ELSE [raised |-> FALSE, rate |-> RoundHalfEven(successful * 10000, total)]

SuccessRate(successful, total) ==
    IF total > 0
    THEN [raised |-> FALSE, rate |-> RoundHalfEven(successful * 10000, total)]
    ELSE [raised |-> FALSE, rate |-> 0]

\* round(x, 2) if x else 0.0 over a column of response times, in hundredths of
\* a millisecond; times is the selected column, empty when AVG/MIN/MAX is NULL
AvgOrZero(times) ==
    IF times = <<>> \/ SumSeq(times) = 0 THEN 0
    ELSE RoundHalfEven(SumSeq(times) * 100, Len(times))

MinOrZero(times) ==
    IF times = <<>> THEN 0
    ELSE 100 * (CHOOSE x \in Range(times) : \A y \in Range(times) : x <= y)

MaxOrZero(times) ==
    IF times = <<>> THEN 0
    ELSE 100 * (CHOOSE x \in Range(times) : \A y \in Range(times) : x >= y)

\* GROUP BY top_k ORDER BY count DESC LIMIT 1: any top_k of maximal count,
\* None when no row is selected
MostUsedTopK(rows) ==
    LET ks == {rows[i].top_k : i \in 1..Len(rows)}
        cnt(k) == Cardinality({i \in 1..Len(rows) : rows[i].top_k = k})
    IN IF rows = <<>> THEN {None}
       ELSE {Some(k) : k \in {k \in ks : \A k2 \in ks : cnt(k2) <= cnt(k)}}

OperationalError == [raised |-> TRUE, error |-> "OperationalError"]
ZeroDivisionError == [raised |-> TRUE, error |-> "ZeroDivisionError"]

\* get_query_stats on a store whose schema exists: the set of results the
\* call can return.  The statements run in the order of the source; the first
\* one SQLite rejects raises sqlite3.OperationalError.
QueryStats(db, user_id, days, t) ==
    LET where_sql == WhereSql(WhereClauses(user_id, days))
        params == [user_id |-> user_id, days |-> days]
        total_sql == where_sql
        success_sql == where_sql \o <<"AND", SuccessCond>>
        failed_sql == where_sql \o <<"AND", FailedCond>>
        top_k_sql == where_sql \o <<GroupByTopK>>
        total == Len(SelectQueries(db, total_sql, params, t))
        successful == Len(SelectQueries(db, success_sql, params, t))
        failed == Len(SelectQueries(db, failed_sql, params, t))
        ok_rows == SelectQueries(db, success_sql, params, t)
        times == [i \in 1..Len(ok_rows) |-> ok_rows[i].response_time_ms]
        rate == SuccessRate(successful, total)
    IN IF ~SqlParses(total_sql) \/ ~SqlParses(success_sql)
          \/ ~SqlParses(failed_sql) \/ ~SqlParses(top_k_sql)
       THEN {OperationalError}
       ELSE IF rate.raised THEN {ZeroDivisionError}
       ELSE {[raised |-> FALSE,
              error |-> "",
              total_queries |-> total,
              successful_queries |-> successful,
              failed_queries |-> failed,
              success_rate |-> rate.rate,
              avg_response_time_ms |-> AvgOrZero(times),
              min_response_time_ms |-> MinOrZero(times),
              max_response_time_ms |-> MaxOrZero(times),
              most_used_top_k |-> k] :
             k \in MostUsedTopK(SelectQueries(db, total_sql, params, t))}

\* get_query_stats: init_metrics_db() first, then the statements
get_query_stats(db, user_id, days, t) ==
    LET st == init_metrics_db(db)
    IN IF st.raised THEN {OperationalError}
       ELSE QueryStats([db EXCEPT !.schema = st.schema], user_id, days, t)

-----------------------------------------------------------------------------
(* get_top_documents *)

\* a set as a sequence, in some fixed order
RECURSIVE SetToSeq(_)
SetToSeq(S) ==
    IF S = {} THEN <<>>
    ELSE LET x == CHOOSE y \in S : TRUE
         IN <<x>> \o SetToSeq(S \ {x})

\* the rows of document_usage the statement reads: all of them, or with a
\* truthy days those joined to a query of the window
\* (JOIN queries q ON du.query_id = q.id WHERE q.created_at >= ...)
UsageRows(db, days, t) ==
    IF TruthyInt(days)
    THEN SelectSeq(db.document_usage,
                   LAMBDA du : \E i \in 1..Len(db.queries) :
                       /\ db.queries[i].id = du.query_id
                       /\ db.queries[i].created_at >= t - days[1] * TicksPerDay)
    ELSE db.document_usage

\* GROUP BY du.source_path with COUNT(*) and COUNT(DISTINCT du.query_id)
UsageGroups(rows) ==
    {[source_path |-> p,
      usage_count |-> Cardinality({i \in 1..Len(rows) : rows[i].source_path = p}),
      unique_queries |-> Cardinality({rows[i].query_id :
                                        i \in {j \in 1..Len(rows) : rows[j].source_path = p}})] :
     p \in {rows[i].source_path : i \in 1..Len(rows)}}

\* LIMIT ?: a negative limit is no limit
Limit(rows, limit) == IF limit < 0 THEN rows ELSE Prefix(rows, limit)

\* ORDER BY usage_count ASC instead of DESC
TopOrdersAsc(groups) == AscOrders([i \in 1..Len(groups) |-> groups[i].usage_count])

\* ORDER BY usage_count DESC
TopOrders(groups) == DescOrders([i \in 1..Len(groups) |-> groups[i].usage_count])

\* get_top_documents on a store whose schema exists: the lists it can return
TopDocuments(db, limit, days, t) ==
    LET groups == SetToSeq(UsageGroups(UsageRows(db, days, t)))
    IN {Limit([i \in 1..Len(groups) |-> groups[f[i]]], limit) : f \in TopOrders(groups)}

get_top_documents(db, limit, days, t) ==
    LET st == init_metrics_db(db)
    IN IF st.raised THEN {}
       ELSE TopDocuments([db EXCEPT !.schema = st.schema], limit, days, t)

-----------------------------------------------------------------------------
(* The metrics store, one call at a time *)

Procs == {"w1", "w2"}
Idle == [pc |-> "idle"]

OptDays == {None} \cup {Some(d) : d \in 0..MaxDays}

InitCommon ==
    /\ metrics_db = EmptyMetricsDb
    /\ now = 0
    /\ last = [op |-> "none"]
    /\ proc = [p \in Procs |-> Idle]
    /\ lock = None

\* time passes
Tick ==
    /\ now < MaxClock
    /\ now' = now + 1
    /\ UNCHANGED <<metrics_db, history_db, last, proc, lock>>

\* a call of init_metrics_db()
InitMetricsDb ==
    LET st == init_metrics_db(metrics_db)
    IN /\ metrics_db' = [metrics_db EXCEPT !.schema = st.schema]
       /\ last' = [op |-> "init_metrics_db", raised |-> st.raised]
       /\ UNCHANGED <<history_db, now, proc, lock>>

\* a call of record_query(...), any statement of which may fail
RecordQueryUpTo(Args, max) ==
    /\ Len(metrics_db.queries) < max
    /\ \E a \in Args : \E fail_at \in 0..(Len(a.sources) + 2) :
        LET r == record_query(metrics_db, a, now, fail_at)
        IN /\ metrics_db' = r.db
           /\ last' = [op |-> "record_query", args |-> a, fail_at |-> fail_at,
                       raised |-> r.raised, id |-> r.id]
           /\ UNCHANGED <<history_db, now, proc, lock>>

RecordQuery(Args) == RecordQueryUpTo(Args, MaxQueries)

\* a call of get_query_stats(user_id, days)
GetQueryStats ==
    \E user_id \in OptUserIds, days \in OptDays :
        \E r \in get_query_stats(metrics_db, user_id, days, now) :
            LET st == init_metrics_db(metrics_db)
            IN /\ metrics_db' = [metrics_db EXCEPT !.schema = st.schema]
               /\ last' = [op |-> "get_query_stats", user_id |-> user_id,
                           days |-> days, at |-> now, result |-> r]
               /\ UNCHANGED <<history_db, now, proc, lock>>

\* a call of get_top_documents(limit, days)
GetTopDocuments ==
    \E limit \in 0..MaxLimit, days \in OptDays :
        \E r \in get_top_documents(metrics_db, limit, days, now) :
            LET st == init_metrics_db(metrics_db)
            IN /\ metrics_db' = [metrics_db EXCEPT !.schema = st.schema]
               /\ last' = [op |-> "get_top_documents", limit |-> limit,
                           days |-> days, at |-> now, result |-> r]
               /\ UNCHANGED <<history_db, now, proc, lock>>

EmptyHistoryDb == [schema |-> {}, conversations |-> <<>>, seq |-> 0]

Init ==
    /\ InitCommon
    /\ history_db = EmptyHistoryDb

\* record_query and init_metrics_db
RecordCalls == RecordQuery(RecordArgs)
NextRecord ==
    \/ Tick
    \/ InitMetricsDb
    \/ RecordCalls

SpecRecord == Init /\ [][NextRecord]_vars

\* record_query and get_query_stats
StatsCalls == RecordQuery(StatsArgs)
NextStats ==
    \/ Tick
    \/ StatsCalls
    \/ GetQueryStats

SpecStats == Init /\ [][NextStats]_vars

\* record_query and get_top_documents
DocsCalls == RecordQuery(DocsArgs)
NextDocs ==
    \/ Tick
    \/ DocsCalls
    \/ GetTopDocuments

SpecDocs == Init /\ [][NextDocs]_vars

-----------------------------------------------------------------------------
(* Claims about record_query, get_query_stats and get_top_documents *)

\* a step that is a completed call of record_query which returned an id
RecordQueryReturned ==
    /\ last'.op = "record_query"
    /\ ~last'.raised
    /\ now' = now
    /\ <<metrics_db, last>>' # <<metrics_db, last>>

\* C1: after every record_query that returned, get_query_stats() with no
\* user_id and no days succeeds and reports total_queries one higher than
\* it did before the call, the bucket matching success one higher, and the
\* other bucket unchanged.
C1_UnfilteredStatsReflectRecord ==
    [][RecordQueryReturned =>
        \A before \in get_query_stats(metrics_db, None, None, now) :
        \A after \in get_query_stats(metrics_db', None, None, now') :
            /\ ~before.raised
            /\ ~after.raised
            /\ after.total_queries = before.total_queries + 1
            /\ after.successful_queries = before.successful_queries
                   + (IF last'.args.success THEN 1 ELSE 0)
            /\ after.failed_queries = before.failed_queries
                   + (IF last'.args.success THEN 0 ELSE 1)]_vars

\* the rows of document_usage that refer to query id, in rowid order
UsageOf(db, id) == SelectSeq(db.document_usage, LAMBDA du : du.query_id = id)

\* C3: a record_query that returned created exactly one QueryRecord, whose
\* id is the returned id and whose sources_count is the length n of sources,
\* and exactly n DocumentUsageRecords with that query_id, the i-th carrying
\* the source and page of the i-th entry of sources.
C3_OneQueryAndOneUsagePerSource ==
    [][RecordQueryReturned =>
        LET id == last'.id[1]
            a == last'.args
            n == Len(a.sources)
            made == UsageOf(metrics_db', id)
        IN /\ last'.id # None
           /\ Len(metrics_db'.queries) = Len(metrics_db.queries) + 1
           /\ SubSeq(metrics_db'.queries, 1, Len(metrics_db.queries)) = metrics_db.queries
           /\ Cardinality({i \in 1..Len(metrics_db'.queries) :
                              metrics_db'.queries[i].id = id}) = 1
           /\ metrics_db'.queries[Len(metrics_db'.queries)].id = id
           /\ metrics_db'.queries[Len(metrics_db'.queries)].sources_count = n
           /\ UsageOf(metrics_db, id) = <<>>
           /\ Len(metrics_db'.document_usage) = Len(metrics_db.document_usage) + n
           /\ Len(made) = n
           /\ \A i \in 1..n :
                 /\ made[i].source_path = a.sources[i].source
                 /\ made[i].page = a.sources[i].page]_vars

\* C3's case: a second query, with two sources, has been recorded
C3_Witness ==
    /\ last.op = "record_query"
    /\ ~last.raised
    /\ Len(last.args.sources) = 2
    /\ Len(metrics_db.queries) = 2
    /\ Len(UsageOf(metrics_db, 2)) = 2
    /\ Len(metrics_db.document_usage) > 2

\* x is num/den rounded to the nearest integer, a tie going to the even one
IsRounded(x, num, den) ==
    LET d == x * den - num
        dist == IF d < 0 THEN 0 - d ELSE d
    IN /\ 2 * dist <= den
       /\ 2 * dist = den => x % 2 = 0

\* C4: no call of get_query_stats divides by zero, and in every result
\* success_rate is 0 when total_queries is 0 and otherwise is
\* successful_queries / total_queries * 100 rounded to two decimals
\* (success_rate is held in hundredths of a percent).
C4_SuccessRate ==
    last.op = "get_query_stats" =>
        /\ last.result.error # "ZeroDivisionError"
        /\ ~last.result.raised =>
              /\ last.result.total_queries = 0 => last.result.success_rate = 0
              /\ last.result.total_queries >= 1 =>
                    IsRounded(last.result.success_rate,
                              last.result.successful_queries * 10000,
                              last.result.total_queries)

\* C4's case: a result over two queries of which one succeeded
C4_Witness ==
    /\ last.op = "get_query_stats"
    /\ ~last.result.raised
    /\ last.result.total_queries = 2
    /\ last.result.successful_queries = 1
    /\ last.result.success_rate = 5000

\* C4's other case: a result over no query at all
C4_WitnessEmpty ==
    /\ last.op = "get_query_stats"
    /\ ~last.result.raised
    /\ last.result.total_queries = 0
    /\ last.result.success_rate = 0

\* C9: get_top_documents(limit) returns min(limit, number of distinct paths)
\* rows, one per distinct source_path of the filtered set, each with
\* usage_count the number of DocumentUsageRecords of that path in the set,
\* in descending usage_count order, no path left out having a higher count
\* than a returned one; with a.pdf recorded twice and b.pdf once,
\* get_top_documents(limit=1) is the single row a.pdf with usage_count 2.
C9_TopDocuments ==
    last.op = "get_top_documents" =>
        LET r == last.result
            rows == UsageRows(metrics_db, last.days, last.at)
            paths == {rows[i].source_path : i \in 1..Len(rows)}
            count(p) == Cardinality({i \in 1..Len(rows) : rows[i].source_path = p})
            got == {r[i].source_path : i \in 1..Len(r)}
        IN /\ Len(r) <= last.limit
           /\ Len(r) = Min(last.limit, Cardinality(paths))
           /\ got \subseteq paths
           /\ Cardinality(got) = Len(r)
           /\ \A i \in 1..Len(r) : r[i].usage_count = count(r[i].source_path)
           /\ \A i \in 1..Len(r) : i < Len(r) => r[i].usage_count >= r[i+1].usage_count
           /\ \A p \in paths \ got : \A i \in 1..Len(r) : count(p) <= r[i].usage_count
           /\ (/\ last.limit = 1
               /\ count(Some("a.pdf")) = 2
               /\ count(Some("b.pdf")) = 1
               /\ Len(rows) = 3)
              => /\ Len(r) = 1
                 /\ r[1].source_path = Some("a.pdf")
                 /\ r[1].usage_count = 2

\* C9's case: a.pdf recorded twice, b.pdf once, and limit = 1
C9_Witness ==
    /\ last.op = "get_top_documents"
    /\ last.limit = 1
    /\ last.days = None
    /\ Len(metrics_db.document_usage) = 3
    /\ Cardinality({i \in 1..3 : metrics_db.document_usage[i].source_path = Some("b.pdf")}) = 1
    /\ last.result = <<[source_path |-> Some("a.pdf"), usage_count |-> 2,
                        unique_queries |-> 2]>>

-----------------------------------------------------------------------------
(* Concurrent callers of record_query, one statement at a time.            *)
(* SQLite lets one connection write at a time: the first INSERT of a       *)
(* transaction takes the write lock, commit and close release it, and a    *)
(* statement that cannot get the lock waits or raises "database is locked" *)

ConcArgs ==
    QueryArgs({Some("alice")}, {TRUE},
              {<<>>, <<Entry(Some("a.pdf"), Some(1)), Entry(Some("b.pdf"), None)>>})

InFlight == {p \in Procs : proc[p].pc # "idle"}

\* record_query(...) is called
PCall(p) ==
    /\ proc[p].pc = "idle"
    /\ Len(metrics_db.queries) + Cardinality(InFlight) < MaxQueries
    /\ \E a \in ConcArgs :
          proc' = [proc EXCEPT ![p] = [pc |-> "init", args |-> a]]
    /\ UNCHANGED <<metrics_db, history_db, now, last, lock>>

\* init_metrics_db()
PInitDb(p) ==
    /\ proc[p].pc = "init"
    /\ LET st == init_metrics_db(metrics_db)
       IN /\ metrics_db' = [metrics_db EXCEPT !.schema = st.schema]
          /\ IF st.raised
             THEN /\ proc' = [proc EXCEPT ![p] = Idle]
                  /\ last' = [op |-> "record_query", by |-> p, args |-> proc[p].args,
                              raised |-> TRUE, id |-> None, done |-> 0]
             ELSE /\ proc' = [proc EXCEPT ![p].pc = "insert_query"]
                  /\ last' = last
    /\ UNCHANGED <<history_db, now, lock>>

\* INSERT INTO queries: opens the transaction and takes the write lock
PInsertQuery(p) ==
    /\ proc[p].pc = "insert_query"
    /\ lock = None
    /\ lock' = Some(p)
    /\ LET txn == InsertQuery(metrics_db, proc[p].args, now)
       IN proc' = [proc EXCEPT ![p] =
                      [pc |-> "insert_usage", args |-> proc[p].args, txn |-> txn,
                       qid |-> LastRowId(txn), i |-> 1]]
    /\ UNCHANGED <<metrics_db, history_db, now, last>>

\* the next INSERT INTO document_usage of the loop
PInsertUsage(p) ==
    /\ proc[p].pc = "insert_usage"
    /\ proc[p].i <= Len(proc[p].args.sources)
    /\ proc' = [proc EXCEPT
                   ![p].txn = InsertDocumentUsage(@, proc[p].qid,
                                                  proc[p].args.sources[proc[p].i], now),
                   ![p].i = @ + 1]
    /\ UNCHANGED <<metrics_db, history_db, now, last, lock>>

\* conn.commit(), return query_id, conn.close()
PCommit(p) ==
    /\ proc[p].pc = "insert_usage"
    /\ proc[p].i > Len(proc[p].args.sources)
    /\ metrics_db' = Commit(metrics_db, proc[p].txn)
    /\ lock' = None
    /\ proc' = [proc EXCEPT ![p] = Idle]
    /\ last' = [op |-> "record_query", by |-> p, args |-> proc[p].args,
                raised |-> FALSE, id |-> Some(proc[p].qid), done |-> proc[p].i - 1]
    /\ UNCHANGED <<history_db, now>>

\* the statement the caller is at (an INSERT or the commit) raises: the
\* finally clause closes the connection and the exception reaches the caller
PRaise(p) ==
    /\ proc[p].pc \in {"insert_query", "insert_usage"}
    /\ metrics_db' = Close(metrics_db,
                           IF proc[p].pc = "insert_usage" THEN proc[p].txn ELSE metrics_db)
    /\ lock' = IF lock = Some(p) THEN None ELSE lock
    /\ proc' = [proc EXCEPT ![p] = Idle]
    /\ last' = [op |-> "record_query", by |-> p, args |-> proc[p].args,
                raised |-> TRUE, id |-> None,
                done |-> IF proc[p].pc = "insert_usage" THEN proc[p].i - 1 ELSE 0]
    /\ UNCHANGED <<history_db, now>>

NextConc ==
    \/ Tick
    \/ \E p \in Procs : PCall(p)
    \/ \E p \in Procs : PInitDb(p)
    \/ \E p \in Procs : PInsertQuery(p)
    \/ \E p \in Procs : PInsertUsage(p)
    \/ \E p \in Procs : PCommit(p)
    \/ \E p \in Procs : PRaise(p)

SpecConc == Init /\ [][NextConc]_vars

\* every QueryRecord of db has exactly sources_count DocumentUsageRecords,
\* and every DocumentUsageRecord belongs to a QueryRecord of db
Paired(db) ==
    /\ \A i \in 1..Len(db.queries) :
          Len(UsageOf(db, db.queries[i].id)) = db.queries[i].sources_count
    /\ \A j \in 1..Len(db.document_usage) :
          \E i \in 1..Len(db.queries) : db.queries[i].id = db.document_usage[j].query_id

\* C2: in every committed state of the store, whatever the other callers
\* are doing, each QueryRecord q has exactly q.sources_count
\* DocumentUsageRecords; a call that ends either returned, and its
\* QueryRecord is in the store, or raised, and the store's records are the
\* ones from before it.
C2_AllOrNothing ==
    [][/\ Paired(metrics_db')
       /\ \A p \in Procs :
             (proc[p].pc # "idle" /\ proc'[p].pc = "idle") =>
                 /\ last'.by = p
                 /\ last'.raised =>
                       /\ metrics_db'.queries = metrics_db.queries
                       /\ metrics_db'.document_usage = metrics_db.document_usage
                 /\ ~last'.raised =>
                       /\ Len(metrics_db'.queries) = Len(metrics_db.queries) + 1
                       /\ metrics_db'.queries[Len(metrics_db'.queries)].id = last'.id[1]
                       /\ Len(UsageOf(metrics_db', last'.id[1])) = Len(last'.args.sources)]_vars

\* C2's case: a call raised after it had inserted its QueryRecord and one of
\* its two DocumentUsageRecords, while another caller was under way and a
\* QueryRecord was already committed
C2_Witness ==
    /\ last.op = "record_query"
    /\ last.raised
    /\ last.done = 1
    /\ Len(last.args.sources) = 2
    /\ Len(metrics_db.queries) = 1
    /\ \E p \in Procs : proc[p].pc = "insert_query"

-----------------------------------------------------------------------------
(* json.dumps / json.loads of a sources list.  The text is held as the     *)
(* sequence of its JSON tokens; a token is [t, v] with t its kind.         *)

Tok(t) == [t |-> t, v |-> None]
StrTok(s) == [t |-> "string", v |-> Some(s)]
NumTok(n) == [t |-> "number", v |-> Some(n)]

\* a source or page value: None is null, a str a string, an int a number
DumpValue(kind, o) ==
    IF o = None THEN <<Tok("null")>>
    ELSE IF kind = "string" THEN <<StrTok(o[1])>>
    ELSE <<NumTok(o[1])>>

\* {"source": ..., "page": ...}
DumpEntry(e) ==
    <<Tok("{"), StrTok("source"), Tok(":")>> \o DumpValue("string", e.source)
    \o <<Tok(","), StrTok("page"), Tok(":")>> \o DumpValue("number", e.page)
    \o <<Tok("}")>>

RECURSIVE DumpEntries(_)
DumpEntries(es) ==
    IF es = <<>> THEN <<>>
    ELSE IF Len(es) = 1 THEN DumpEntry(es[1])
    ELSE DumpEntry(es[1]) \o <<Tok(",")>> \o DumpEntries(Tail(es))

\* json.dumps with the entries written last to first
json_dumps_reversed(sources) ==
    LET n == Len(sources)
    IN <<Tok("[")>> \o DumpEntries([i \in 1..n |-> sources[n + 1 - i]]) \o <<Tok("]")>>

\* json.dumps(sources)
json_dumps(sources) == <<Tok("[")>> \o DumpEntries(sources) \o <<Tok("]")>>

\* the value a scalar token stands for
LoadValue(tok) == IF tok.t = "null" THEN None ELSE tok.v

\* the members of an object whose "{" has been read: toks starts at a key or
\* at "}".  The result is the dict read so far and the tokens after the "}".
RECURSIVE LoadMembers(_, _)
LoadMembers(toks, dict) ==
    IF Head(toks).t = "}" THEN [value |-> dict, rest |-> Tail(toks)]
    ELSE IF Head(toks).t = "," THEN LoadMembers(Tail(toks), dict)
    ELSE LET key == Head(toks).v[1]
             val == LoadValue(toks[3])
         IN LoadMembers(SubSeq(toks, 4, Len(toks)),
                        IF key = "source" THEN [dict EXCEPT !.source = val]
                        ELSE IF key = "page" THEN [dict EXCEPT !.page = val]
                        ELSE dict)

\* the elements of an array whose "[" has been read
RECURSIVE LoadElements(_, _)
LoadElements(toks, list) ==
    IF Head(toks).t = "]" THEN list
    ELSE IF Head(toks).t = "," THEN LoadElements(Tail(toks), list)
    ELSE LET m == LoadMembers(Tail(toks), Entry(None, None))
         IN LoadElements(m.rest, Append(list, m.value))

\* json.loads(text)
json_loads(text) == LoadElements(Tail(text), <<>>)

-----------------------------------------------------------------------------
(* conversation_history.db *)

HistoryDdl == <<"conversations", "idx_user_id", "idx_created_at">>

RECURSIVE CreateAllHistory(_, _)
CreateAllHistory(st, names) ==
    IF names = <<>> THEN st
    ELSE CreateAllHistory(CreateIfNotExists(st, Head(names)), Tail(names))

\* init_history_db: the outcome [schema, raised] of running the DDL
init_history_db(db) ==
    CreateAllHistory([schema |-> db.schema, raised |-> FALSE], HistoryDdl)

\* the sources lists saved: the empty one, and one of two entries, the
\* second with no page
HistoryLists ==
    { <<>>,
      <<Entry(Some("a.pdf"), Some(1)), Entry(Some("b.pdf"), None)>> }

\* arguments of save_conversation
ConversationArgs ==
    [user_id : UserIds,
     question : {"q?"},
     answer : {"an answer"},
     sources : HistoryLists,
     top_k : {4}]

\* save_conversation on a store whose schema exists: INSERT INTO
\* conversations, commit, return cursor.lastrowid.  AUTOINCREMENT gives the
\* row an id above every id the table has ever held.
SaveConversation(db, a, t) ==
    LET id == db.seq + 1
    IN [db |-> [db EXCEPT
                   !.seq = id,
                   !.conversations = Append(@,
                       [id |-> id,
                        user_id |-> a.user_id,
                        question |-> a.question,
                        answer |-> a.answer,
                        sources |-> json_dumps(a.sources),
                        top_k |-> a.top_k,
                        created_at |-> t])],
        raised |-> FALSE,
        id |-> Some(id)]

save_conversation(db, a, t) ==
    LET st == init_history_db(db)
    IN IF st.raised
       THEN [db |-> db, raised |-> TRUE, id |-> None]
       ELSE SaveConversation([db EXCEPT !.schema = st.schema], a, t)

\* one element of the list get_conversation_history returns
ConversationDict(row) ==
    [id |-> row.id,
     question |-> row.question,
     answer |-> row.answer,
     sources |-> IF row.sources # <<>> THEN json_loads(row.sources) ELSE <<>>,
     top_k |-> row.top_k,
     created_at |-> row.created_at]

\* ORDER BY created_at DESC instead of ASC
HistoryOrdersDesc(rows) == DescOrders([i \in 1..Len(rows) |-> rows[i].created_at])

\* ORDER BY created_at ASC
HistoryOrders(rows) == AscOrders([i \in 1..Len(rows) |-> rows[i].created_at])

\* get_conversation_history on a store whose schema exists: the lists the
\* SELECT ... WHERE user_id = ? ORDER BY created_at ASC [LIMIT n] can return
ConversationHistory(db, user_id, limit) ==
    LET rows == SelectSeq(db.conversations, LAMBDA r : r.user_id = user_id)
        n == Len(rows)
    IN {LET sorted == [i \in 1..n |-> rows[f[i]]]
            cut == IF TruthyInt(limit) THEN Limit(sorted, limit[1]) ELSE sorted
        IN [i \in 1..Len(cut) |-> ConversationDict(cut[i])] :
        f \in HistoryOrders(rows)}

get_conversation_history(db, user_id, limit) ==
    LET st == init_history_db(db)
    IN IF st.raised THEN {}
       ELSE ConversationHistory([db EXCEPT !.schema = st.schema], user_id, limit)

\* DELETE FROM conversations WHERE user_id = ? that leaves the oldest row
DeleteButOldest(db, user_id) ==
    LET mine == {i \in 1..Len(db.conversations) : db.conversations[i].user_id = user_id}
        keep == IF mine = {} THEN {} ELSE {CHOOSE i \in mine : \A j \in mine : i <= j}
        left == {i \in 1..Len(db.conversations) : i \notin mine \/ i \in keep}
        pick(i) == CHOOSE k \in left : Cardinality({j \in left : j <= k}) = i
    IN [db |-> [db EXCEPT !.conversations =
                   [i \in 1..Cardinality(left) |-> db.conversations[pick(i)]]],
        raised |-> FALSE,
        count |-> Cardinality(mine \ keep)]

\* DELETE FROM conversations without its WHERE clause: every user's rows go
DeleteEveryUser(db, user_id) ==
    [db |-> [db EXCEPT !.conversations = <<>>],
     raised |-> FALSE,
     count |-> Len(SelectSeq(db.conversations, LAMBDA r : r.user_id = user_id))]

\* delete_conversation_history on a store whose schema exists: DELETE FROM
\* conversations WHERE user_id = ?, commit, return cursor.rowcount
DeleteConversations(db, user_id) ==
    [db |-> [db EXCEPT !.conversations = SelectSeq(@, LAMBDA r : r.user_id # user_id)],
     raised |-> FALSE,
     count |-> Len(SelectSeq(db.conversations, LAMBDA r : r.user_id = user_id))]

delete_conversation_history(db, user_id) ==
    LET st == init_history_db(db)
    IN IF st.raised
       THEN [db |-> db, raised |-> TRUE, count |-> 0]
       ELSE DeleteConversations([db EXCEPT !.schema = st.schema], user_id)

-----------------------------------------------------------------------------
(* The history store, one call at a time *)

OptLimits == {None} \cup {Some(n) : n \in 0..MaxLimit}

\* a call of init_history_db()
InitHistoryDb ==
    LET st == init_history_db(history_db)
    IN /\ history_db' = [history_db EXCEPT !.schema = st.schema]
       /\ last' = [op |-> "init_history_db", raised |-> st.raised]
       /\ UNCHANGED <<metrics_db, now, proc, lock>>

\* a call of save_conversation(...)
SaveConv(Args) ==
    /\ history_db.seq < MaxConversations
    /\ \E a \in Args :
        LET r == save_conversation(history_db, a, now)
        IN /\ history_db' = r.db
           /\ last' = [op |-> "save_conversation", args |-> a,
                       raised |-> r.raised, id |-> r.id]
           /\ UNCHANGED <<metrics_db, now, proc, lock>>

\* a call of get_conversation_history(user_id, limit)
GetHistory ==
    \E user_id \in UserIds, limit \in OptLimits :
        \E r \in get_conversation_history(history_db, user_id, limit) :
            LET st == init_history_db(history_db)
            IN /\ history_db' = [history_db EXCEPT !.schema = st.schema]
               /\ last' = [op |-> "get_conversation_history", user_id |-> user_id,
                           limit |-> limit, result |-> r]
               /\ UNCHANGED <<metrics_db, now, proc, lock>>

\* a call of delete_conversation_history(user_id)
DeleteHistory ==
    \E user_id \in UserIds :
        LET r == delete_conversation_history(history_db, user_id)
        IN /\ history_db' = r.db
           /\ last' = [op |-> "delete_conversation_history", user_id |-> user_id,
                       raised |-> r.raised, count |-> r.count]
           /\ UNCHANGED <<metrics_db, now, proc, lock>>

HistoryCalls == SaveConv(ConversationArgs)
NextHistory ==
    \/ Tick
    \/ InitHistoryDb
    \/ HistoryCalls
    \/ GetHistory
    \/ DeleteHistory

SpecHistory == Init /\ [][NextHistory]_vars

-----------------------------------------------------------------------------
(* Claims about the conversation history *)

\* the rows of user_id in the conversations table, in rowid order, which is
\* the order of the save_conversation calls
RowsOf(db, user_id) == SelectSeq(db.conversations, LAMBDA r : r.user_id = user_id)

\* a step that is a completed call of delete_conversation_history
DeleteReturned ==
    /\ last'.op = "delete_conversation_history"
    /\ now' = now
    /\ <<history_db, last>>' # <<history_db, last>>

\* C5: delete_conversation_history(user) on a user with N stored
\* ConversationRecords returns N without error (0 when there are none), and
\* get_conversation_history(user) on the store it leaves returns the empty
\* list, with any limit.
C5_DeleteReturnsCountAndEmpties ==
    [][DeleteReturned =>
        /\ ~last'.raised
        /\ last'.count = Len(RowsOf(history_db, last'.user_id))
        /\ \A limit \in OptLimits :
              get_conversation_history(history_db', last'.user_id, limit) = {<<>>}]_vars

\* C5's case: a user with one conversation was deleted, another user's
\* conversation being stored
C5_Witness ==
    /\ last.op = "delete_conversation_history"
    /\ ~last.raised
    /\ last.count = 1
    /\ Len(history_db.conversations) = 1
    /\ history_db.seq = 2

\* C5's case of several: a user with two conversations was deleted
C5_WitnessTwo ==
    /\ last.op = "delete_conversation_history"
    /\ last.count = 2

\* C5's other case: a user with no conversation was deleted
C5_WitnessNone ==
    /\ last.op = "delete_conversation_history"
    /\ last.count = 0
    /\ ~last.raised
    /\ Len(history_db.conversations) = 2
    /\ history_db.schema # {}

C6_HistoryInTimestampOrder ==
    (last.op = "get_conversation_history" /\ ~TruthyInt(last.limit)) =>
        LET rows == RowsOf(history_db, last.user_id)
            r == last.result
        IN /\ Len(r) = Len(rows)
           /\ {r[i].id : i \in 1..Len(r)} = {rows[i].id : i \in 1..Len(rows)}
           /\ \A i \in 1..Len(r) : i < Len(r) => r[i].created_at <= r[i+1].created_at

\* C7: for a user with N ConversationRecords and a limit L >= 1,
\* get_conversation_history(user, L) returns min(L, N) records of the user,
\* each once, in ascending created_at order, and no record left out is
\* older than a returned one: the oldest turns, not the most recent.
C7_LimitKeepsOldest ==
    (last.op = "get_conversation_history" /\ TruthyInt(last.limit)) =>
        LET rows == RowsOf(history_db, last.user_id)
            r == last.result
            got == {r[i].id : i \in 1..Len(r)}
        IN /\ Len(r) = Min(last.limit[1], Len(rows))
           /\ Cardinality(got) = Len(r)
           /\ got \subseteq {rows[i].id : i \in 1..Len(rows)}
           /\ \A i \in 1..Len(r) : i < Len(r) => r[i].created_at <= r[i+1].created_at
           /\ \A i \in 1..Len(r) : \A j \in 1..Len(rows) :
                 rows[j].id \notin got => r[i].created_at <= rows[j].created_at

\* C7's case: limit 1 on a user with two conversations saved at different
\* times returned the older one
C7_Witness ==
    /\ last.op = "get_conversation_history"
    /\ last.limit = Some(1)
    /\ Len(RowsOf(history_db, last.user_id)) = 2
    /\ RowsOf(history_db, last.user_id)[1].created_at
          < RowsOf(history_db, last.user_id)[2].created_at
    /\ Len(last.result) = 1
    /\ last.result[1].id = RowsOf(history_db, last.user_id)[1].id

\* C8: the sources list passed to save_conversation is the sources field of
\* that ConversationRecord in every list get_conversation_history returns
\* for the user, element for element and in the same order.
C8_SourcesRoundTrip ==
    (last.op = "save_conversation" /\ ~last.raised) =>
        \A r \in get_conversation_history(history_db, last.args.user_id, None) :
            \E i \in 1..Len(r) :
                /\ r[i].id = last.id[1]
                /\ r[i].sources = last.args.sources

\* C8's case: a list of two entries, one with no page, was saved after
\* another conversation of the same user
C8_Witness ==
    /\ last.op = "save_conversation"
    /\ ~last.raised
    /\ Len(last.args.sources) = 2
    /\ last.args.sources[2].page = None
    /\ Len(RowsOf(history_db, last.args.user_id)) = 2

-----------------------------------------------------------------------------
(* Schema initialisation of both stores, on empty and on filled stores *)

HistoryObjects == {"conversations", "idx_user_id", "idx_created_at"}

SchemaQueryArgs == QueryArgs({Some("alice")}, {TRUE}, {<<Entry(Some("a.pdf"), Some(1))>>})
SchemaConversationArgs == {a \in ConversationArgs : a.user_id = "alice" /\ a.sources # <<>>}

SchemaRecordCalls == RecordQuery(SchemaQueryArgs)
SchemaSaveCalls == SaveConv(SchemaConversationArgs)
NextSchema ==
    \/ Tick
    \/ InitMetricsDb
    \/ InitHistoryDb
    \/ SchemaRecordCalls
    \/ SchemaSaveCalls
    \/ DeleteHistory

SpecSchema == Init /\ [][NextSchema]_vars

\* a step that is a completed call of init_metrics_db / of init_history_db
InitMetricsReturned ==
    /\ last'.op = "init_metrics_db"
    /\ now' = now
    /\ <<metrics_db, history_db, last>>' # <<metrics_db, history_db, last>>

InitHistoryReturned ==
    /\ last'.op = "init_history_db"
    /\ now' = now
    /\ <<metrics_db, history_db, last>>' # <<metrics_db, history_db, last>>

\* C10: a call of init_metrics_db or init_history_db, on a store in any
\* state, does not raise, leaves the store with exactly the tables and
\* indexes of a first call (so an existing schema is unchanged, and one more
\* call changes nothing either), and leaves every stored record as it was.
C10_InitIdempotent ==
    [][/\ InitMetricsReturned =>
             /\ ~last'.raised
             /\ metrics_db'.schema = MetricsTables \cup MetricsIndexes
             /\ metrics_db.schema # {} => metrics_db'.schema = metrics_db.schema
             /\ ~init_metrics_db(metrics_db').raised
             /\ init_metrics_db(metrics_db').schema = metrics_db'.schema
             /\ metrics_db'.queries = metrics_db.queries
             /\ metrics_db'.errors = metrics_db.errors
             /\ metrics_db'.document_usage = metrics_db.document_usage
             /\ history_db' = history_db
       /\ InitHistoryReturned =>
             /\ ~last'.raised
             /\ history_db'.schema = HistoryObjects
             /\ history_db.schema # {} => history_db'.schema = history_db.schema
             /\ ~init_history_db(history_db').raised
             /\ init_history_db(history_db').schema = history_db'.schema
             /\ history_db'.conversations = history_db.conversations
             /\ history_db'.seq = history_db.seq
             /\ metrics_db' = metrics_db]_vars

\* C10's case: init_metrics_db was called on a store that has its schema
\* and holds a query with its document usage
C10_Witness ==
    /\ last.op = "init_metrics_db"
    /\ ~last.raised
    /\ Len(metrics_db.queries) >= 1
    /\ Len(metrics_db.document_usage) >= 1
    /\ Len(history_db.conversations) >= 1

\* C10's case for the history store
C10_WitnessHistory ==
    /\ last.op = "init_history_db"
    /\ ~last.raised
    /\ Len(history_db.conversations) >= 1
    /\ Len(metrics_db.queries) >= 1

-----------------------------------------------------------------------------
(* record_error *)

\* arguments of record_error
ErrorArgs(endpoints, types) ==
    [user_id : {None},
     endpoint : endpoints,
     error_type : types,
     error_message : {"boom"},
     status_code : {Some(500)}]

\* the INSERT without its user_id column: the row is stored with no user
InsertErrorNoUser(txn, a, t) ==
    [txn EXCEPT !.errors = Append(@,
        [id |-> Len(@) + 1,
         user_id |-> None,
         endpoint |-> a.endpoint,
         error_type |-> a.error_type,
         error_message |-> a.error_message,
         status_code |-> a.status_code,
         created_at |-> t])]

\* INSERT INTO errors (...) VALUES (...)
InsertError(txn, a, t) ==
    [txn EXCEPT !.errors = Append(@,
        [id |-> Len(@) + 1,
         user_id |-> a.user_id,
         endpoint |-> a.endpoint,
         error_type |-> a.error_type,
         error_message |-> a.error_message,
         status_code |-> a.status_code,
         created_at |-> t])]

\* record_error: init_metrics_db(), then INSERT, commit, return
\* cursor.lastrowid; when the INSERT or the commit raises (fails), the
\* connection is closed without commit
record_error(db, a, t, fails) ==
    LET st == init_metrics_db(db)
        base == [db EXCEPT !.schema = st.schema]
        txn == InsertError(base, a, t)
    IN IF st.raised \/ fails
       THEN [db |-> Close(base, txn), raised |-> TRUE, id |-> None]
       ELSE [db |-> Commit(base, txn), raised |-> FALSE,
             id |-> Some(txn.errors[Len(txn.errors)].id)]

\* a call of record_error(...), which may fail
RecordErrorUpTo(Args, max) ==
    /\ Len(metrics_db.errors) < max
    /\ \E a \in Args, fails \in BOOLEAN :
        LET r == record_error(metrics_db, a, now, fails)
        IN /\ metrics_db' = r.db
           /\ last' = [op |-> "record_error", args |-> a,
                       raised |-> r.raised, id |-> r.id]
           /\ UNCHANGED <<history_db, now, proc, lock>>

RecordError(Args) == RecordErrorUpTo(Args, MaxErrors)

-----------------------------------------------------------------------------
(* Every operation that writes, on both stores *)

StoreQueryArgs ==
    QueryArgs({None, Some("alice")}, {TRUE}, {<<Entry(Some("a.pdf"), Some(1))>>})
StoreErrorArgs == ErrorArgs({"/query"}, {"HTTP_500"})
StoreConversationArgs == {a \in ConversationArgs : a.sources # <<>>}

StoreRecordCalls == RecordQuery(StoreQueryArgs)
StoreErrorCalls == RecordError(StoreErrorArgs)
StoreSaveCalls == SaveConv(StoreConversationArgs)
NextStore ==
    \/ InitMetricsDb
    \/ InitHistoryDb
    \/ StoreRecordCalls
    \/ StoreErrorCalls
    \/ StoreSaveCalls
    \/ DeleteHistory

SpecStore == Init /\ [][NextStore]_vars

\* s is an initial part of t
IsPrefix(s, t) == Len(s) <= Len(t) /\ SubSeq(t, 1, Len(s)) = s

\* C11: in every step, every committed QueryRecord, ErrorRecord and
\* DocumentUsageRecord is still stored with the same fields (the tables only
\* grow); a ConversationRecord that is still stored has the same fields; and
\* a ConversationRecord disappears only in a delete_conversation_history
\* step, which removes rows of the given user only.
C11_AppendOnly ==
    [][/\ IsPrefix(metrics_db.queries, metrics_db'.queries)
       /\ IsPrefix(metrics_db.errors, metrics_db'.errors)
       /\ IsPrefix(metrics_db.document_usage, metrics_db'.document_usage)
       /\ \A r \in Range(history_db.conversations) :
          \A r2 \in Range(history_db'.conversations) :
              r2.id = r.id => r2 = r
       /\ \A r \in Range(history_db.conversations) :
              r \notin Range(history_db'.conversations) =>
                 /\ last'.op = "delete_conversation_history"
                 /\ r.user_id = last'.user_id
       /\ \A r2 \in Range(history_db'.conversations) :
              r2 \notin Range(history_db.conversations) => r2.id > history_db.seq]_vars

\* C11's case: a delete removed a conversation while the metrics store
\* holds a query, its document usage and an error, and another user's
\* conversation is still stored
C11_Witness ==
    /\ last.op = "delete_conversation_history"
    /\ last.count >= 1
    /\ Len(history_db.conversations) >= 1
    /\ Len(metrics_db.queries) >= 1
    /\ Len(metrics_db.document_usage) >= 1
    /\ Len(metrics_db.errors) >= 1

-----------------------------------------------------------------------------
(* POST /query and the metrics middleware (api/main.py) *)

\* QueryRequest: user_id is optional and may be the empty string
Payloads ==
    [user_id : {None, Some(""), Some("alice")},
     question : {"q?"},
     top_k : {4}]

\* What get_qa_chain(...) / chain.invoke(...) does: "returns" a result with
\* an answer and source documents, "raises" an exception whose str() is
\* message, or returns a result whose processing raises ("bad_result")
ChainOutcomes ==
    {[kind |-> "returns", answer |-> "an answer",
      sources |-> <<Entry(Some("a.pdf"), Some(1))>>, message |-> ""],
     [kind |-> "raises", answer |-> "", sources |-> <<>>, message |-> "boom"],
     [kind |-> "bad_result", answer |-> "", sources |-> <<>>, message |-> "boom"]}

\* success stays False only when chain.invoke (or get_qa_chain) raised
SuccessFlagAlways(chain) == TRUE
SuccessFlag(chain) == chain.kind # "raises"

\* the handler's result: ConversationResponse, or HTTPException(500) from
\* the except clause; exceptions of the recorders are caught and logged
ResponseUnlessRecorderFailed(chain, saved, recorded) ==
    IF chain.kind = "returns" /\ ~saved.raised /\ ~recorded.raised
    THEN [status |-> 200, answer |-> chain.answer, sources |-> chain.sources,
          conversation_id |-> saved.id, detail |-> ""]
    ELSE [status |-> 500, answer |-> "", sources |-> <<>>,
          conversation_id |-> None, detail |-> chain.message]

QueryResponse(chain, saved, recorded) ==
    IF chain.kind = "returns"
    THEN [status |-> 200, answer |-> chain.answer, sources |-> chain.sources,
          conversation_id |-> saved.id, detail |-> ""]
    ELSE [status |-> 500, answer |-> "", sources |-> <<>>,
          conversation_id |-> None, detail |-> chain.message]

\* query_documents(payload).  save_fails: save_conversation raises;
\* fail_at: the statement of record_query that raises (0 for none).
\* calls lists the recorder calls in the order they were made.
query_documents(mdb, hdb, payload, chain, save_fails, fail_at, t) ==
    LET returned == chain.kind = "returns"
        success == SuccessFlag(chain)
        error_message == IF returned THEN None ELSE Some(chain.message)
        sources == IF returned THEN chain.sources ELSE <<>>
        save_called == returned /\ TruthyStr(payload.user_id)
        save_args == [user_id |-> IF save_called THEN payload.user_id[1] ELSE "",
                      question |-> payload.question,
                      answer |-> chain.answer,
                      sources |-> sources,
                      top_k |-> payload.top_k]
        saved == IF ~save_called THEN [db |-> hdb, raised |-> FALSE, id |-> None]
                 ELSE IF save_fails THEN [db |-> hdb, raised |-> TRUE, id |-> None]
                 ELSE save_conversation(hdb, save_args, t)
        query_args == [user_id |-> payload.user_id,
                       question |-> payload.question,
                       top_k |-> payload.top_k,
                       response_time_ms |-> 120,
                       success |-> success,
                       sources |-> sources,
                       error_message |-> error_message]
        recorded == record_query(mdb, query_args, t, fail_at)
    IN [metrics_db |-> recorded.db,
        history_db |-> saved.db,
        response |-> QueryResponse(chain, saved, recorded),
        calls |-> (IF save_called
                   THEN <<[fn |-> "save_conversation", args |-> save_args,
                           raised |-> saved.raised]>>
                   ELSE <<>>)
                  \o <<[fn |-> "record_query", args |-> query_args,
                        raised |-> recorded.raised]>>]

\* f"HTTP_{response.status_code}"
HttpErrorType(status) ==
    IF status = 404 THEN "HTTP_404" ELSE IF status = 500 THEN "HTTP_500" ELSE "HTTP_4xx"

\* f"HTTP {response.status_code}"
HttpErrorMessage(status) ==
    IF status = 404 THEN "HTTP 404" ELSE IF status = 500 THEN "HTTP 500" ELSE "HTTP 4xx"

\* what call_next(request) does for an endpoint other than /query: a
\* response with a status code, or an exception that no handler caught
CallNextOutcomes ==
    {[kind |-> "response", status |-> st, type |-> "", message |-> ""] :
        st \in {200, 404}}
    \cup {[kind |-> "exception", status |-> 500, type |-> "TypeError", message |-> "boom"]}

\* the arguments of the record_error call in dispatch, None when it makes none
DispatchErrorArgs(path, outcome) ==
    IF outcome.kind = "exception"
    THEN Some([user_id |-> None, endpoint |-> path, error_type |-> outcome.type,
               error_message |-> outcome.message, status_code |-> Some(500)])
    ELSE IF outcome.status >= 400
    THEN Some([user_id |-> None, endpoint |-> path,
               error_type |-> HttpErrorType(outcome.status),
               error_message |-> HttpErrorMessage(outcome.status), status_code |-> Some(outcome.status)])
    ELSE None

\* dispatch returns the response or re-raises the exception, whatever
\* record_error did
DispatchResult(outcome, recorded) == outcome

\* MetricsMiddleware.dispatch around call_next with the given outcome;
\* error_fails: record_error raises
dispatch(mdb, path, outcome, error_fails, t) ==
    LET args == DispatchErrorArgs(path, outcome)
        recorded == IF args = None THEN [db |-> mdb, raised |-> FALSE, id |-> None]
                    ELSE record_error(mdb, args[1], t, error_fails)
    IN [metrics_db |-> recorded.db,
        result |-> DispatchResult(outcome, recorded),
        calls |-> IF args = None THEN <<>>
                  ELSE <<[fn |-> "record_error", args |-> args[1],
                          raised |-> recorded.raised]>>]

\* FastAPI turns the handler's HTTPException into a response of that status
AsCallNext(response) ==
    [kind |-> "response", status |-> response.status, type |-> "", message |-> ""]

\* a POST /query request: the handler inside the middleware.  save_fails,
\* record_fails and error_fails say which recorder finds the storage
\* unavailable; a flag is drawn only where its recorder is called.
PostQuery(Ps, Cs) ==
    /\ Len(metrics_db.queries) < MaxQueries
    /\ Len(metrics_db.errors) < MaxErrors
    /\ history_db.seq < MaxConversations
    /\ \E payload \in Ps, chain \in Cs,
          save_fails \in BOOLEAN, record_fails \in BOOLEAN, error_fails \in BOOLEAN :
        LET h == query_documents(metrics_db, history_db, payload, chain,
                                 save_fails, IF record_fails THEN 1 ELSE 0, now)
            d == dispatch(h.metrics_db, "/query", AsCallNext(h.response),
                          error_fails, now)
        IN /\ save_fails => chain.kind = "returns" /\ TruthyStr(payload.user_id)
           /\ error_fails => h.response.status >= 400
           /\ metrics_db' = d.metrics_db
           /\ history_db' = h.history_db
           /\ last' = [op |-> "post_query", payload |-> payload, chain |-> chain,
                       response |-> h.response, result |-> d.result,
                       calls |-> h.calls \o d.calls]
           /\ UNCHANGED <<now, proc, lock>>

\* a request to another endpoint passing through the middleware
Dispatch ==
    /\ Len(metrics_db.errors) < MaxErrors
    /\ \E outcome \in CallNextOutcomes, error_fails \in BOOLEAN :
        LET d == dispatch(metrics_db, "/metrics/export", outcome, error_fails, now)
        IN /\ error_fails => DispatchErrorArgs("/metrics/export", outcome) # None
           /\ metrics_db' = d.metrics_db
           /\ last' = [op |-> "dispatch", outcome |-> outcome,
                       result |-> d.result, calls |-> d.calls]
           /\ UNCHANGED <<history_db, now, proc, lock>>

\* requests the pipeline answers, with every kind of user_id, and requests
\* it fails on
ApiCalls == PostQuery(Payloads, {c \in ChainOutcomes : c.kind = "returns"})
ApiFailedCalls ==
    PostQuery({p \in Payloads : p.user_id = Some("alice")},
              {c \in ChainOutcomes : c.kind # "returns"})
NextApi ==
    \/ ApiCalls
    \/ ApiFailedCalls
    \/ Dispatch

SpecApi == Init /\ [][NextApi]_vars

\* record_query called directly, with and without an error message
ApiQueryArgs ==
    [user_id : {Some("alice")},
     question : {"q?"},
     top_k : {4},
     response_time_ms : {120},
     success : BOOLEAN,
     sources : {<<>>},
     error_message : {None, Some("boom")}]

ApiRecordCalls == RecordQuery(ApiQueryArgs)
ApiAliceCalls == PostQuery({p \in Payloads : p.user_id = Some("alice")}, ChainOutcomes)
NextApiRecord ==
    \/ ApiAliceCalls
    \/ ApiRecordCalls

SpecApiRecord == Init /\ [][NextApiRecord]_vars

-----------------------------------------------------------------------------
(* Claims about POST /query and the middleware *)

\* the calls of recorder fn made by the last request
CallsOf(fn) == SelectSeq(last.calls, LAMBDA c : c.fn = fn)

\* C12: every stored QueryRecord with success = false has an error message
\* (error_message is not NULL), whoever wrote it.
C12_FailedHasErrorMessage ==
    \A i \in 1..Len(metrics_db.queries) :
        ~metrics_db.queries[i].success => metrics_db.queries[i].error_message # None

\* the part of C12 about the handler: the QueryRecord a POST /query request
\* writes has an error message whenever its success is false
C12_HandlerRowsHaveMessage ==
    [][last'.op = "post_query" =>
         \A i \in 1..Len(metrics_db'.queries) :
             i > Len(metrics_db.queries) =>
                (~metrics_db'.queries[i].success =>
                     metrics_db'.queries[i].error_message # None)]_vars

C12_WitnessHandler ==
    /\ last.op = "post_query"
    /\ last.chain.kind = "raises"
    /\ Len(metrics_db.queries) >= 1
    /\ ~metrics_db.queries[Len(metrics_db.queries)].success

\* C13: when the pipeline returned, the request answers 200 with the
\* pipeline's answer and sources whether or not save_conversation or
\* record_query raised, conversation_id being null when save_conversation
\* raised or was not called and the saved id otherwise; and the middleware
\* hands on the response or exception of the wrapped request unchanged
\* whether or not record_error raised.
C13_BestEffortRecording ==
    /\ (last.op = "post_query" /\ last.chain.kind = "returns") =>
          /\ last.response.status = 200
          /\ last.response.answer = last.chain.answer
          /\ last.response.sources = last.chain.sources
          /\ \A c \in Range(CallsOf("save_conversation")) :
                c.raised => last.response.conversation_id = None
          /\ CallsOf("save_conversation") = <<>> => last.response.conversation_id = None
          /\ \A c \in Range(CallsOf("save_conversation")) :
                ~c.raised =>
                   /\ last.response.conversation_id # None
                   /\ \E r \in Range(history_db.conversations) :
                         /\ r.id = last.response.conversation_id[1]
                         /\ r.user_id = c.args.user_id
          /\ last.result.kind = "response" /\ last.result.status = 200
    /\ (last.op = "post_query" /\ last.chain.kind # "returns") =>
          /\ last.response.status = 500
          /\ last.response.detail = last.chain.message
          /\ last.result.kind = "response" /\ last.result.status = 500
    /\ last.op = "dispatch" => last.result = last.outcome

\* C13's case in the handler: the pipeline returned while both
\* save_conversation and record_query raised
C13_Witness ==
    /\ last.op = "post_query"
    /\ last.chain.kind = "returns"
    /\ \E c \in Range(CallsOf("save_conversation")) : c.raised
    /\ \E c \in Range(CallsOf("record_query")) : c.raised

\* C13's case in the middleware: record_error raised after an exception,
\* and after an error response
C13_WitnessMiddleware ==
    /\ last.op = "dispatch"
    /\ last.outcome.kind = "exception"
    /\ \E c \in Range(CallsOf("record_error")) : c.raised

C13_WitnessErrorResponse ==
    /\ last.op = "post_query"
    /\ last.response.status = 500
    /\ \E c \in Range(CallsOf("record_error")) : c.raised

C14_WitnessNoUser ==
    /\ last.op = "post_query"
    /\ last.payload.user_id = None
    /\ last.chain.kind = "returns"
    /\ Len(CallsOf("record_query")) = 1
    /\ history_db.conversations # <<>>

C14_WitnessFailed ==
    /\ last.op = "post_query"
    /\ last.chain.kind = "raises"
    /\ Len(CallsOf("record_query")) = 1

-----------------------------------------------------------------------------
(* Claims about the filters and the latency aggregates of get_query_stats *)

\* whether a QueryRecord satisfies the filters given: user_id equal when a
\* user_id is given, created within the last days days when days is given
Matches(r, user_id, days, at) ==
    /\ user_id # None => r.user_id = user_id
    /\ days # None => r.created_at >= at - days[1] * TicksPerDay

\* the QueryRecords the last get_query_stats call had to count
Filtered == SelectSeq(metrics_db.queries,
                      LAMBDA r : Matches(r, last.user_id, last.days, last.at))

FilteredOk == SelectSeq(Filtered, LAMBDA r : r.success)

\* C15: for each combination of user_id given or not and days given or not
\* (days a positive number when given), get_query_stats succeeds and its
\* three counts are those of the QueryRecords that satisfy every filter given.
C15_FilterCombinations ==
    (last.op = "get_query_stats" /\ last.days # Some(0)) =>
        /\ ~last.result.raised
        /\ last.result.total_queries = Len(Filtered)
        /\ last.result.successful_queries = Len(FilteredOk)
        /\ last.result.failed_queries = Len(Filtered) - Len(FilteredOk)

\* the three combinations with at least one filter given
C15_WithAFilter ==
    (last.op = "get_query_stats" /\ last.days # Some(0)
        /\ (last.user_id # None \/ last.days # None)) =>
        /\ ~last.result.raised
        /\ last.result.total_queries = Len(Filtered)
        /\ last.result.successful_queries = Len(FilteredOk)
        /\ last.result.failed_queries = Len(Filtered) - Len(FilteredOk)

\* a call with both filters given, each of which leaves a record out
C15_WitnessBoth ==
    /\ last.op = "get_query_stats"
    /\ last.user_id = Some("alice") /\ last.days = Some(1)
    /\ ~last.result.raised
    /\ last.result.total_queries = 0
    /\ \E r \in Range(metrics_db.queries) :
          r.user_id = Some("alice") /\ r.created_at < last.at - TicksPerDay
    /\ \E r \in Range(metrics_db.queries) :
          r.user_id # Some("alice") /\ r.created_at >= last.at - TicksPerDay

\* record_query with two response times, for successful and failed queries
LatencyArgs ==
    [user_id : {Some("alice")},
     question : {"q?"},
     top_k : {4},
     response_time_ms : {80, 120},
     success : BOOLEAN,
     sources : {<<>>},
     error_message : {None}]

LatencyCalls == RecordQuery(LatencyArgs)
NextLatency ==
    \/ Tick
    \/ LatencyCalls
    \/ GetQueryStats

SpecLatency == Init /\ [][NextLatency]_vars

\* the response times of the successful QueryRecords of the filtered set
OkTimes == [i \in 1..Len(FilteredOk) |-> FilteredOk[i].response_time_ms]

C16_WitnessNoSuccess ==
    /\ last.op = "get_query_stats"
    /\ last.days = Some(1)
    /\ ~last.result.raised
    /\ Filtered # <<>>
    /\ FilteredOk = <<>>
    /\ last.result.avg_response_time_ms = 0

-----------------------------------------------------------------------------
(* get_time_series_data and get_conversation_count *)

\* DATE(created_at)
DateOf(ts) == ts \div TicksPerDay

\* the rows of queries the statement reads: the days window always applies,
\* the user filter when user_id is truthy
SeriesRows(db, days, user_id, t) ==
    SelectSeq(db.queries,
              LAMBDA r : /\ r.created_at >= t - days * TicksPerDay
                         /\ TruthyStr(user_id) => r.user_id = user_id)

\* GROUP BY DATE(created_at) with the aggregates of the SELECT list
SeriesGroups(rows) ==
    {LET day == SelectSeq(rows, LAMBDA r : DateOf(r.created_at) = d)
         times == [i \in 1..Len(day) |-> day[i].response_time_ms]
     IN [date |-> d,
         query_count |-> Len(day),
         avg_response_time_ms |-> AvgOrZero(times),
         successful_queries |-> Len(SelectSeq(day, LAMBDA r : r.success)),
         failed_queries |-> Len(SelectSeq(day, LAMBDA r : ~r.success))] :
     d \in {DateOf(rows[i].created_at) : i \in 1..Len(rows)}}

\* ORDER BY date DESC instead of ASC
SeriesOrdersDesc(groups) == DescOrders([i \in 1..Len(groups) |-> groups[i].date])

\* ORDER BY date ASC
SeriesOrders(groups) == AscOrders([i \in 1..Len(groups) |-> groups[i].date])

\* get_time_series_data on a store whose schema exists: the lists it can return
TimeSeries(db, days, user_id, t) ==
    LET groups == SetToSeq(SeriesGroups(SeriesRows(db, days, user_id, t)))
    IN {[i \in 1..Len(groups) |-> groups[f[i]]] : f \in SeriesOrders(groups)}

get_time_series_data(db, days, user_id, t) ==
    LET st == init_metrics_db(db)
    IN IF st.raised THEN {}
       ELSE TimeSeries([db EXCEPT !.schema = st.schema], days, user_id, t)

\* get_conversation_count: SELECT COUNT(*) ... WHERE user_id = ?
get_conversation_count(db, user_id) ==
    LET st == init_history_db(db)
    IN IF st.raised THEN [raised |-> TRUE, count |-> 0]
       ELSE [raised |-> FALSE,
             count |-> Len(SelectSeq(db.conversations, LAMBDA r : r.user_id = user_id))]

\* a call of get_time_series_data(days, user_id)
GetTimeSeries ==
    \E days \in 0..MaxDays, user_id \in OptUserIds :
        \E r \in get_time_series_data(metrics_db, days, user_id, now) :
            LET st == init_metrics_db(metrics_db)
            IN /\ metrics_db' = [metrics_db EXCEPT !.schema = st.schema]
               /\ last' = [op |-> "get_time_series_data", user_id |-> user_id,
                           days |-> Some(days), at |-> now, result |-> r]
               /\ UNCHANGED <<history_db, now, proc, lock>>

\* a call of get_conversation_count(user_id)
GetConversationCount ==
    \E user_id \in UserIds :
        LET st == init_history_db(history_db)
            r == get_conversation_count(history_db, user_id)
        IN /\ history_db' = [history_db EXCEPT !.schema = st.schema]
           /\ last' = [op |-> "get_conversation_count", user_id |-> user_id,
                       raised |-> r.raised, result |-> r.count]
           /\ UNCHANGED <<metrics_db, now, proc, lock>>

SeriesArgs == QueryArgs({None, Some("alice")}, BOOLEAN, {<<>>})
SeriesCalls == RecordQuery(SeriesArgs)
NextSeries ==
    \/ Tick
    \/ SeriesCalls
    \/ GetTimeSeries

SpecSeries == Init /\ [][NextSeries]_vars

\* C19: get_time_series_data returns one row per calendar date on which a
\* QueryRecord matching the filters was created and no other row, in
\* strictly ascending date order; each row's query_count is the number of
\* matching QueryRecords of its date and is successful_queries + failed_queries.
C19_TimeSeries ==
    last.op = "get_time_series_data" =>
        LET res == last.result
            dates == {DateOf(Filtered[i].created_at) : i \in 1..Len(Filtered)}
        IN /\ {res[i].date : i \in 1..Len(res)} = dates
           /\ Len(res) = Cardinality(dates)
           /\ \A i \in 1..Len(res) : i < Len(res) => res[i].date < res[i+1].date
           /\ \A i \in 1..Len(res) :
                 /\ res[i].query_count >= 1
                 /\ res[i].query_count =
                       Len(SelectSeq(Filtered,
                                     LAMBDA r : DateOf(r.created_at) = res[i].date))
                 /\ res[i].query_count =
                       res[i].successful_queries + res[i].failed_queries
                 /\ res[i].successful_queries =
                       Len(SelectSeq(FilteredOk,
                                     LAMBDA r : DateOf(r.created_at) = res[i].date))

\* C19's case: two rows, for two dates, while a date in between or outside
\* the filters has no row
C19_Witness ==
    /\ last.op = "get_time_series_data"
    /\ Len(last.result) = 2
    /\ last.result[1].date < last.result[2].date
    /\ last.result[1].query_count = 1

\* C19's other case: a stored query outside the filters gives no row
C19_WitnessLeftOut ==
    /\ last.op = "get_time_series_data"
    /\ Len(last.result) = 1
    /\ Len(metrics_db.queries) = 2
    /\ last.result[1].query_count = 1

-----------------------------------------------------------------------------
(* Reads for a user the stores hold nothing of *)

ReadsQueryArgs == QueryArgs({Some("alice")}, BOOLEAN, {<<>>})
ReadsConversationArgs == {a \in ConversationArgs : a.user_id = "alice" /\ a.sources = <<>>}

ReadsRecordCalls == RecordQuery(ReadsQueryArgs)
ReadsSaveCalls == SaveConv(ReadsConversationArgs)
NextReads ==
    \/ ReadsRecordCalls
    \/ ReadsSaveCalls
    \/ GetQueryStats
    \/ GetHistory
    \/ GetConversationCount
    \/ GetTimeSeries

SpecReads == Init /\ [][NextReads]_vars

\* the users with no QueryRecord / with no ConversationRecord
NoQueries == {u \in UserIds : \A r \in Range(metrics_db.queries) : r.user_id # Some(u)}
NoConversations == {u \in UserIds : \A r \in Range(history_db.conversations) : r.user_id # u}

\* C17: for a user with no stored records every read succeeds with an empty
\* result: get_query_stats(user_id=u) returns the four figures 0,
\* get_conversation_history(u) the empty list, get_conversation_count(u) 0
\* and get_time_series_data(user_id=u) the empty list.
C17_UnknownUserReads ==
    /\ \A u \in NoQueries :
          /\ get_query_stats(metrics_db, Some(u), None, now) # {}
          /\ \A r \in get_query_stats(metrics_db, Some(u), None, now) :
                /\ ~r.raised
                /\ r.total_queries = 0
                /\ r.successful_queries = 0
                /\ r.failed_queries = 0
                /\ r.success_rate = 0
          /\ \A days \in 0..MaxDays :
                get_time_series_data(metrics_db, days, Some(u), now) = {<<>>}
    /\ \A u \in NoConversations :
          /\ \A limit \in OptLimits :
                get_conversation_history(history_db, u, limit) = {<<>>}
          /\ get_conversation_count(history_db, u) = [raised |-> FALSE, count |-> 0]
    /\ (last.op = "get_query_stats" /\ last.user_id # None
           /\ last.user_id[1] \in NoQueries) =>
          ~last.result.raised /\ last.result.total_queries = 0
    /\ (last.op = "get_time_series_data" /\ last.user_id # None
           /\ last.user_id[1] \in NoQueries) => last.result = <<>>
    /\ (last.op = "get_conversation_history" /\ last.user_id \in NoConversations) =>
          last.result = <<>>
    /\ (last.op = "get_conversation_count" /\ last.user_id \in NoConversations) =>
          ~last.raised /\ last.result = 0

\* C17's cases: each read was made for bob while only alice has records
C17_Witness ==
    /\ last.op = "get_query_stats"
    /\ last.user_id = Some("bob") /\ last.days = None
    /\ metrics_db.queries # <<>>
    /\ history_db.conversations # <<>>
    /\ last.result.total_queries = 0

C17_WitnessHistory ==
    /\ last.op = "get_conversation_history"
    /\ last.user_id = "bob"
    /\ history_db.conversations # <<>>

C17_WitnessCount ==
    /\ last.op = "get_conversation_count"
    /\ last.user_id = "bob"
    /\ history_db.conversations # <<>>

C17_WitnessSeries ==
    /\ last.op = "get_time_series_data"
    /\ last.user_id = Some("bob")
    /\ metrics_db.queries # <<>>

-----------------------------------------------------------------------------
(* get_top_users *)

\* the rows of queries the statement reads: all, or with a truthy days
\* those of the window
WindowRows(db, days, t) ==
    IF TruthyInt(days)
    THEN SelectSeq(db.queries, LAMBDA r : r.created_at >= t - days[1] * TicksPerDay)
    ELSE db.queries

\* GROUP BY user_id with the aggregates of the SELECT list; the rows with a
\* NULL user_id form one group
UserGroups(rows) ==
    {LET mine == SelectSeq(rows, LAMBDA r : r.user_id = u)
         times == [i \in 1..Len(mine) |-> mine[i].response_time_ms]
     IN [user_id |-> u,
         query_count |-> Len(mine),
         avg_response_time_ms |-> AvgOrZero(times),
         successful_queries |-> Len(SelectSeq(mine, LAMBDA r : r.success))] :
     u \in {rows[i].user_id : i \in 1..Len(rows)}}

\* no HAVING clause
HavingNothing(groups) == groups

\* HAVING user_id IS NOT NULL
HavingUserId(groups) == {g \in groups : g.user_id # None}

\* ORDER BY query_count DESC
TopUserOrders(groups) == DescOrders([i \in 1..Len(groups) |-> groups[i].query_count])

\* get_top_users on a store whose schema exists: the lists it can return
\* (user_id is kept as stored: Some(u))
TopUsers(db, limit, days, t) ==
    LET groups == SetToSeq(HavingUserId(UserGroups(WindowRows(db, days, t))))
    IN {Limit([i \in 1..Len(groups) |-> groups[f[i]]], limit) : f \in TopUserOrders(groups)}

get_top_users(db, limit, days, t) ==
    LET st == init_metrics_db(db)
    IN IF st.raised THEN {}
       ELSE TopUsers([db EXCEPT !.schema = st.schema], limit, days, t)

\* a call of get_top_users(limit, days), with a limit of at least 1 and
\* days absent or at least 1, as the endpoint passes them
GetTopUsers ==
    \E limit \in 1..MaxLimit, days \in OptDays \ {Some(0)} :
        \E r \in get_top_users(metrics_db, limit, days, now) :
            LET st == init_metrics_db(metrics_db)
            IN /\ metrics_db' = [metrics_db EXCEPT !.schema = st.schema]
               /\ last' = [op |-> "get_top_users", limit |-> limit, user_id |-> None,
                           days |-> days, at |-> now, result |-> r]
               /\ UNCHANGED <<history_db, now, proc, lock>>

\* queries of alice (successful), of bob (failed) and without user_id
UsersArgs ==
    QueryArgs({None, Some("alice")}, {TRUE}, {<<>>})
    \cup QueryArgs({Some("bob")}, {FALSE}, {<<>>})

UsersCalls == RecordQueryUpTo(UsersArgs, MaxRanked)
NextUsers ==
    \/ Tick
    \/ UsersCalls
    \/ GetTopUsers

SpecUsers == Init /\ [][NextUsers]_vars

\* the QueryRecords of user u (Some(u)) among those the last call had to read
FilteredOf(u) == SelectSeq(Filtered, LAMBDA r : r.user_id = u)

\* C18: get_top_users(limit) returns at most limit rows, each for a
\* different non-null user_id that has a QueryRecord in the window;
\* query_count is that user's number of QueryRecords in the window and
\* successful_queries the number of them that succeeded; the rows are in
\* descending query_count order and no user left out has more queries than
\* one returned; as many users are returned as limit allows; QueryRecords
\* without user_id give no row and are counted nowhere.
C18_TopUsers ==
    (last.op = "get_top_users" /\ last.days # Some(0)) =>
        LET res == last.result
            users == {Filtered[i].user_id : i \in 1..Len(Filtered)} \ {None}
        IN /\ Len(res) <= last.limit
           /\ Len(res) = Min(last.limit, Cardinality(users))
           /\ \A i, j \in 1..Len(res) : i # j => res[i].user_id # res[j].user_id
           /\ \A i \in 1..Len(res) :
                 /\ res[i].user_id \in users
                 /\ res[i].query_count = Len(FilteredOf(res[i].user_id))
                 /\ res[i].successful_queries =
                       Len(SelectSeq(FilteredOf(res[i].user_id), LAMBDA r : r.success))
           /\ \A i \in 1..Len(res) : i < Len(res) =>
                 res[i].query_count >= res[i+1].query_count
           /\ \A u \in users :
                 (\A i \in 1..Len(res) : res[i].user_id # u) =>
                    \A i \in 1..Len(res) : res[i].query_count >= Len(FilteredOf(u))

\* C18's case: two users ranked, the first with more queries, while a
\* query without user_id is stored
C18_Witness ==
    /\ last.op = "get_top_users"
    /\ last.days # Some(0)
    /\ Len(last.result) = 2
    /\ last.result[1].query_count > last.result[2].query_count

\* C18's other cases: the limit cuts the ranking; a query without user_id
\* gives no row; a query outside the window is not counted
C18_WitnessLimit ==
    /\ last.op = "get_top_users"
    /\ last.limit = 1
    /\ Len(last.result) = 1
    /\ last.result[1].query_count = 2
    /\ \E r \in Range(metrics_db.queries) :
          r.user_id \notin {None, last.result[1].user_id}

C18_WitnessNull ==
    /\ last.op = "get_top_users"
    /\ last.days = None
    /\ Len(last.result) = 1
    /\ last.result[1].query_count = 1
    /\ Len(metrics_db.queries) = 3

C18_WitnessWindow ==
    /\ last.op = "get_top_users"
    /\ last.days = Some(1)
    /\ Len(last.result) = 1
    /\ last.result[1].query_count = 1
    /\ Len(SelectSeq(metrics_db.queries,
                     LAMBDA r : r.user_id = last.result[1].user_id)) = 2

-----------------------------------------------------------------------------
(* get_error_stats *)

\* the rows of errors a statement run at time t reads: all, or with a
\* truthy days those of the window; datetime('now', ...) is evaluated by
\* each statement when it runs
ErrorRows(db, days, t) ==
    IF TruthyInt(days)
    THEN SelectSeq(db.errors, LAMBDA r : r.created_at >= t - days[1] * TicksPerDay)
    ELSE db.errors

\* SELECT error_type, COUNT(*) as count ... GROUP BY error_type
TypeGroups(rows) ==
    {[error_type |-> k,
      count |-> Len(SelectSeq(rows, LAMBDA r : r.error_type = k))] :
     k \in {rows[i].error_type : i \in 1..Len(rows)}}

\* SELECT endpoint, COUNT(*) as count ... GROUP BY endpoint
EndpointGroups(rows) ==
    {[endpoint |-> k,
      count |-> Len(SelectSeq(rows, LAMBDA r : r.endpoint = k))] :
     k \in {rows[i].endpoint : i \in 1..Len(rows)}}

\* ORDER BY count DESC
CountOrders(groups) == DescOrders([i \in 1..Len(groups) |-> groups[i].count])

\* get_error_stats on a store whose schema exists: the results it can
\* return when its three statements run at times t1 <= t2 <= t3
ErrorStats(db, days, t1, t2, t3) ==
    LET types == SetToSeq(TypeGroups(ErrorRows(db, days, t2)))
        endpoints == SetToSeq(EndpointGroups(ErrorRows(db, days, t3)))
    IN {[total_errors |-> Len(ErrorRows(db, days, t1)),
         error_types |-> [i \in 1..Len(types) |-> types[f[i]]],
         error_endpoints |-> [i \in 1..Len(endpoints) |-> endpoints[g[i]]]] :
        f \in CountOrders(types), g \in CountOrders(endpoints)}

get_error_stats(db, days, t1, t2, t3) ==
    LET st == init_metrics_db(db)
    IN IF st.raised THEN {}
       ELSE ErrorStats([db EXCEPT !.schema = st.schema], days, t1, t2, t3)

\* a call of get_error_stats(days); the clock may pass to its next tick
\* between two statements of the call
GetErrorStats ==
    \E days \in OptDays, t2 \in now..Min(now + 1, MaxClock) :
    \E t3 \in t2..Min(now + 1, MaxClock) :
        \E r \in get_error_stats(metrics_db, days, now, t2, t3) :
            LET st == init_metrics_db(metrics_db)
            IN /\ metrics_db' = [metrics_db EXCEPT !.schema = st.schema]
               /\ now' = t3
               /\ last' = [op |-> "get_error_stats", days |-> days, at |-> now,
                           at_types |-> t2, at_endpoints |-> t3, result |-> r]
               /\ UNCHANGED <<history_db, proc, lock>>

ErrorStatsArgs ==
    ErrorArgs({"/query"}, {"HTTP_500", "ValueError"})
    \cup ErrorArgs({"/history"}, {"HTTP_500"})

ErrorsCalls == RecordErrorUpTo(ErrorStatsArgs, MaxRanked)
NextErrors ==
    \/ Tick
    \/ ErrorsCalls
    \/ GetErrorStats

SpecErrors == Init /\ [][NextErrors]_vars

\* the counts of a list of groups, added up
RECURSIVE SumCounts(_)
SumCounts(groups) ==
    IF groups = <<>> THEN 0 ELSE Head(groups).count + SumCounts(Tail(groups))

\* the ErrorRecords in the window of the last get_error_stats call, the
\* window taken when the call began
ErrorsInWindow ==
    SelectSeq(metrics_db.errors,
              LAMBDA r : last.days # None =>
                            r.created_at >= last.at - last.days[1] * TicksPerDay)

\* what C20 says of a result
ErrorStatsConsistent ==
    LET res == last.result
    IN /\ res.total_errors = Len(ErrorsInWindow)
       /\ {res.error_types[i].error_type : i \in 1..Len(res.error_types)}
             = {ErrorsInWindow[i].error_type : i \in 1..Len(ErrorsInWindow)}
       /\ \A i, j \in 1..Len(res.error_types) :
             i # j => res.error_types[i].error_type # res.error_types[j].error_type
       /\ {res.error_endpoints[i].endpoint : i \in 1..Len(res.error_endpoints)}
             = {ErrorsInWindow[i].endpoint : i \in 1..Len(ErrorsInWindow)}
       /\ \A i, j \in 1..Len(res.error_endpoints) :
             i # j => res.error_endpoints[i].endpoint # res.error_endpoints[j].endpoint
       /\ \A i \in 1..Len(res.error_types) : i < Len(res.error_types) =>
             res.error_types[i].count >= res.error_types[i+1].count
       /\ \A i \in 1..Len(res.error_endpoints) : i < Len(res.error_endpoints) =>
             res.error_endpoints[i].count >= res.error_endpoints[i+1].count
       /\ SumCounts(res.error_types) = res.total_errors
       /\ SumCounts(res.error_endpoints) = res.total_errors

\* C20: in every result of get_error_stats (no writer runs during a call;
\* days a positive number when given) total_errors is the number of
\* ErrorRecords in the window, error_types has one entry per distinct kind
\* and error_endpoints one per distinct endpoint, each in descending count
\* order, and the counts of each list add up to total_errors.
C20_ErrorStats ==
    (last.op = "get_error_stats" /\ last.days # Some(0)) => ErrorStatsConsistent

\* the same for the calls during which the clock does not advance, and for
\* the calls without a days window
C20_AtOneInstant ==
    (last.op = "get_error_stats" /\ last.days # Some(0)
        /\ (last.days = None \/ last.at_endpoints = last.at)) => ErrorStatsConsistent

\* a result over three errors of two kinds, counts 2 and 1
C20_WitnessRanked ==
    /\ last.op = "get_error_stats"
    /\ last.result.total_errors = 3
    /\ Len(last.result.error_types) = 2
    /\ last.result.error_types[1].count = 2
    /\ Len(last.result.error_endpoints) = 2

-----------------------------------------------------------------------------
(* record_error beside record_query *)

\* arguments of record_error with and without a user and a status code
ErrorRecordArgs ==
    [user_id : {None, Some("alice")},
     endpoint : {"/query"},
     error_type : {"HTTP_500", "ValueError"},
     error_message : {"boom"},
     status_code : {None, Some(500)}]

ErrorRecQueryArgs ==
    QueryArgs({Some("alice")}, {TRUE}, {<<Entry(Some("a.pdf"), Some(1))>>})

ErrorRecCalls == RecordError(ErrorRecordArgs)
ErrorRecQueryCalls == RecordQuery(ErrorRecQueryArgs)
NextErrorRec ==
    \/ ErrorRecCalls
    \/ ErrorRecQueryCalls

SpecErrorRec == Init /\ [][NextErrorRec]_vars

\* a step in which a record_error call returned
RecordErrorReturned ==
    /\ last'.op = "record_error"
    /\ ~last'.raised
    /\ now' = now
    /\ <<metrics_db, last>>' # <<metrics_db, last>>

\* C21: a record_error that returned added exactly one ErrorRecord, after
\* the ones already stored, carrying the given user_id, endpoint,
\* error_type, error_message and status_code; the returned id is the id of
\* that record and of no other; every QueryRecord and DocumentUsageRecord is
\* unchanged. This holds whether or not a QueryRecord is stored.
C21_RecordError ==
    [][RecordErrorReturned =>
        LET a == last'.args
            n == Len(metrics_db.errors)
            e == metrics_db'.errors[n + 1]
        IN /\ Len(metrics_db'.errors) = n + 1
           /\ SubSeq(metrics_db'.errors, 1, n) = metrics_db.errors
           /\ e.user_id = a.user_id
           /\ e.endpoint = a.endpoint
           /\ e.error_type = a.error_type
           /\ e.error_message = a.error_message
           /\ e.status_code = a.status_code
           /\ e.created_at = now
           /\ last'.id = Some(e.id)
           /\ \A i \in 1..n : metrics_db.errors[i].id # e.id
           /\ metrics_db'.queries = metrics_db.queries
           /\ metrics_db'.document_usage = metrics_db.document_usage]_vars

\* C21's case: an error with a user and a status code recorded on a store
\* that holds no QueryRecord, after an earlier error
C21_Witness ==
    /\ last.op = "record_error"
    /\ ~last.raised
    /\ last.args.user_id = Some("alice")
    /\ last.args.status_code = Some(500)
    /\ Len(metrics_db.errors) = 2
    /\ metrics_db.queries = <<>>

\* C21's case beside a stored QueryRecord and its DocumentUsageRecord
C21_WitnessBesideQuery ==
    /\ last.op = "record_error"
    /\ ~last.raised
    /\ last.args.status_code = None
    /\ Len(metrics_db.queries) >= 1
    /\ Len(metrics_db.document_usage) >= 1

-----------------------------------------------------------------------------
(* GET /metrics/export.  A Python value of a raw record is held as          *)
(* [k, v]: k its type and v the text str() gives for it.  A text is the     *)
(* sequence of its characters, with a run of characters that are neither a  *)
(* comma, a quote, a backslash nor a line break held as one element.        *)

MaxRecords == 2

Comma == ","
DQuote == "\""
Backslash == "\\"
CR == "\r"
LF == "\n"

\* the characters of the strings used as field values
Chars(s) ==
    CASE s = "" -> <<>>
      [] s = "a,b" -> <<"a", Comma, "b">>
      [] s = "say \"hi\"" -> <<"say ", DQuote, "hi", DQuote>>
      [] s = "l1\nl2" -> <<"l1", LF, "l2">>
      [] s = "say \"hi\"\nc:\\x" -> <<"say ", DQuote, "hi", DQuote, LF, "c:", Backslash, "x">>
      [] OTHER -> <<s>>

PyNone == [k |-> "NoneType", v |-> <<>>]
PyInt(n) == [k |-> "int", v |-> <<ToString(n)>>]
PyFloat(n) == [k |-> "float", v |-> <<ToString(n), ".0">>]
PyBool(b) == [k |-> "bool", v |-> IF b THEN <<"True">> ELSE <<"False">>]
PyStr(s) == [k |-> "str", v |-> Chars(s)]
PyOptInt(o) == IF o = None THEN PyNone ELSE PyInt(o[1])
PyOptStr(o) == IF o = None THEN PyNone ELSE PyStr(o[1])
\* a CURRENT_TIMESTAMP text, written as the number of its tick; it holds
\* no comma, quote or line break
PyTimestamp(t) == [k |-> "str", v |-> <<ToString(t)>>]

\* record.get(field)
DictGet(record, field) ==
    IF field \in DOMAIN record THEN record[field] ELSE PyNone

\* the fieldnames lists of export_metrics_data
FieldNames(data_type) ==
    IF data_type = "queries"
    THEN <<"id", "user_id", "question", "top_k", "response_time_ms",
           "success", "error_message", "sources_count", "created_at">>
    ELSE IF data_type = "errors"
    THEN <<"id", "user_id", "endpoint", "error_type", "error_message",
           "status_code", "created_at">>
    ELSE <<"id", "query_id", "user_id", "question", "source_path", "page",
           "created_at", "query_created_at">>

RECURSIVE Flatten(_)
Flatten(ss) == IF ss = <<>> THEN <<>> ELSE Head(ss) \o Flatten(Tail(ss))

\* csv.writer, QUOTE_MINIMAL: a field is quoted when it holds the
\* delimiter, the quote character or a character of the line terminator
NeedsQuote(text) == \E i \in 1..Len(text) : text[i] \in {Comma, DQuote, CR, LF}

\* doublequote: every quote character inside a quoted field is written twice
Doubled(text) ==
    Flatten([i \in 1..Len(text) |->
                IF text[i] = DQuote THEN <<DQuote, DQuote>> ELSE <<text[i]>>])

\* a field written without quoting any value
CsvFieldUnquoted(value) == IF value.k = "NoneType" THEN <<>> ELSE value.v

\* one field as csv.writer writes it: None is written as the empty string,
\* any other value as str(value)
CsvField(value) ==
    IF value.k = "NoneType" THEN <<>>
    ELSE IF NeedsQuote(value.v) THEN <<DQuote>> \o Doubled(value.v) \o <<DQuote>>
    ELSE value.v

RECURSIVE JoinComma(_)
JoinComma(fields) ==
    IF fields = <<>> THEN <<>>
    ELSE IF Len(fields) = 1 THEN fields[1]
    ELSE fields[1] \o <<Comma>> \o JoinComma(Tail(fields))

\* writer.writerow: the fields joined by commas, ended by "\r\n" (every
\* fieldnames list has more than one name, so the special writing of a row
\* made of one empty field does not arise)
CsvRow(values) ==
    JoinComma([i \in 1..Len(values) |-> CsvField(values[i])]) \o <<CR, LF>>

\* writer.writeheader()
CsvHeader(fieldnames) ==
    CsvRow([i \in 1..Len(fieldnames) |-> PyStr(fieldnames[i])])

\* writer.writerow({field: record.get(field) for field in fieldnames})
CsvRecord(record, fieldnames) ==
    CsvRow([i \in 1..Len(fieldnames) |-> DictGet(record, fieldnames[i])])

\* _serialize_to_csv(records, fieldnames)
serialize_to_csv(records, fieldnames) ==
    CsvHeader(fieldnames)
    \o Flatten([i \in 1..Len(records) |-> CsvRecord(records[i], fieldnames)])

\* records as a caller may hand them to _serialize_to_csv: with every field,
\* with fields missing or None, with a field outside the list, and with
\* texts that hold the delimiter, quotes and a line break
CsvRecords ==
    { [id |-> PyInt(1), user_id |-> PyNone, endpoint |-> PyStr("/query"),
       error_type |-> PyStr("HTTP_500"), error_message |-> PyStr("boom"),
       status_code |-> PyInt(500), created_at |-> PyStr("2024-01-01")],
      [id |-> PyInt(2), user_id |-> PyStr("alice"), question |-> PyStr("a,b"),
       created_at |-> PyStr("2024-01-01")],
      [id |-> PyInt(3), error_message |-> PyStr("say \"hi\""),
       traceback |-> PyStr("l1\nl2"), success |-> PyBool(FALSE)],
      [id |-> PyInt(4), error_message |-> PyStr("l1\nl2"),
       question |-> PyStr(""), response_time_ms |-> PyFloat(120)],
      [id |-> PyNone, endpoint |-> PyStr("a,b"), page |-> PyNone,
       source_path |-> PyStr("say \"hi\"")],
      [id |-> PyInt(6), query_id |-> PyInt(1), source_path |-> PyStr("a.pdf"),
       page |-> PyInt(1), created_at |-> PyStr("2024-01-01")] }

RECURSIVE ListsUpTo(_, _)
ListsUpTo(S, n) ==
    IF n = 0 THEN {<<>>}
    ELSE ListsUpTo(S, n - 1)
         \cup {Append(l, x) : l \in {m \in ListsUpTo(S, n - 1) : Len(m) = n - 1}, x \in S}

\* a call of _serialize_to_csv(records, fieldnames) with one of the three
\* fieldnames lists
SerializeToCsv ==
    \E data_type \in {"queries", "errors", "documents"},
       records \in ListsUpTo(CsvRecords, MaxRecords) :
        /\ last' = [op |-> "serialize_to_csv", data_type |-> data_type,
                    records |-> records,
                    fieldnames |-> FieldNames(data_type),
                    result |-> serialize_to_csv(records, FieldNames(data_type))]
        /\ UNCHANGED <<metrics_db, history_db, now, proc, lock>>

NextCsv == SerializeToCsv

SpecCsv == Init /\ [][NextCsv]_vars

\* the elements of text at the positions p..q
Slice(text, p, q) == IF p > q THEN <<>> ELSE SubSeq(text, p, q)

\* the pieces of text between the positions seps (a sequence in ascending
\* order), the separators themselves left out
Pieces(text, seps) ==
    [k \in 1..(Len(seps) + 1) |->
        Slice(text,
              IF k = 1 THEN 1 ELSE seps[k - 1] + 1,
              IF k > Len(seps) THEN Len(text) ELSE seps[k] - 1)]

\* the positions of text outside quoted fields that hold character c: a
\* position is inside a quoted field when an odd number of quote characters
\* precede it
Outside(text, c) ==
    SelectSeq([i \in 1..Len(text) |-> i],
              LAMBDA i : /\ text[i] = c
                         /\ Cardinality({j \in 1..(i - 1) : text[j] = DQuote}) % 2 = 0)

\* the value of a field as csv.reader gives it: an unquoted field as it
\* stands, a quoted one without its enclosing quotes and with every doubled
\* quote read as one
CsvValue(field) ==
    IF field = <<>> \/ Head(field) # DQuote THEN field
    ELSE LET inner == Slice(field, 2, Len(field) - 1)
             kept == SelectSeq([i \in 1..Len(inner) |-> i],
                        LAMBDA i : inner[i] = DQuote =>
                            Cardinality({j \in 1..i : inner[j] = DQuote}) % 2 = 1)
         IN [i \in 1..Len(kept) |-> inner[kept[i]]]

\* one line without its terminator, read into its fields
CsvReadRow(line) ==
    LET body == IF line # <<>> /\ line[Len(line)] = CR
                THEN Slice(line, 1, Len(line) - 1) ELSE line
        fields == Pieces(body, Outside(body, Comma))
    IN [k \in 1..Len(fields) |-> CsvValue(fields[k])]

\* csv.reader over a text: the rows end at the line breaks outside quoted
\* fields, the fields of a row at its commas outside quoted fields
CsvRead(text) ==
    LET lines == Pieces(text, Outside(text, LF))
        whole == IF lines[Len(lines)] = <<>> THEN Slice(lines, 1, Len(lines) - 1)
                 ELSE lines
    IN [k \in 1..Len(whole) |-> CsvReadRow(whole[k])]

\* the text a record shows for a field name: empty when the record has no
\* such field or holds None in it
Shown(record, name) ==
    IF name \in DOMAIN record /\ record[name].k # "NoneType"
    THEN record[name].v ELSE <<>>

\* C22: the text _serialize_to_csv returns for a data_type reads back as a
\* header row holding exactly the fixed field names of the data_type in the
\* declared order, followed by one row per record in record order; each row
\* has one column per field name, holding the record's value for that name,
\* and the empty text when the record has no such field or holds None in
\* it; a field of the record outside the list is in no column.
C22_CsvExport ==
    last.op = "serialize_to_csv" =>
        LET names == FieldNames(last.data_type)
            rows == CsvRead(last.result)
        IN /\ last.fieldnames = names
           /\ (last.data_type = "errors" =>
                  names = <<"id", "user_id", "endpoint", "error_type",
                            "error_message", "status_code", "created_at">>)
           /\ Len(rows) = 1 + Len(last.records)
           /\ rows[1] = [j \in 1..Len(names) |-> <<names[j]>>]
           /\ SubSeq(last.result, 1, 2 * Len(names) + 1)
                 = JoinComma([j \in 1..Len(names) |-> <<names[j]>>]) \o <<CR, LF>>
           /\ \A i \in 1..Len(last.records) :
                 rows[i + 1] = [j \in 1..Len(names) |-> Shown(last.records[i], names[j])]

\* C22's case: two error records exported, one lacking fields of the list
\* and holding a field outside it, with a quote and a line break in its
\* texts
C22_Witness ==
    /\ last.op = "serialize_to_csv"
    /\ last.data_type = "errors"
    /\ Len(last.records) = 2
    /\ \E i \in 1..2 :
          /\ "traceback" \in DOMAIN last.records[i]
          /\ "endpoint" \notin DOMAIN last.records[i]
    /\ \E i \in 1..2 : DictGet(last.records[i], "user_id") = PyNone
                        /\ "user_id" \in DOMAIN last.records[i]

-----------------------------------------------------------------------------
(* The raw record lists and the export endpoint *)

\* a row of queries as a dict
QueryDict(r) ==
    [id |-> PyInt(r.id),
     user_id |-> PyOptStr(r.user_id),
     question |-> PyStr(r.question),
     top_k |-> PyInt(r.top_k),
     response_time_ms |-> PyFloat(r.response_time_ms),
     success |-> PyBool(r.success),
     error_message |-> PyOptStr(r.error_message),
     sources_count |-> PyInt(r.sources_count),
     created_at |-> PyTimestamp(r.created_at)]

\* a row of errors as a dict
ErrorDict(r) ==
    [id |-> PyInt(r.id),
     user_id |-> PyOptStr(r.user_id),
     endpoint |-> PyStr(r.endpoint),
     error_type |-> PyStr(r.error_type),
     error_message |-> PyStr(r.error_message),
     status_code |-> PyOptInt(r.status_code),
     created_at |-> PyTimestamp(r.created_at)]

\* a row of document_usage joined to its query, as a dict
UsageDict(du, q) ==
    [id |-> PyInt(du.id),
     query_id |-> PyInt(du.query_id),
     user_id |-> PyOptStr(q.user_id),
     question |-> PyStr(q.question),
     source_path |-> PyOptStr(du.source_path),
     page |-> PyOptInt(du.page),
     created_at |-> PyTimestamp(du.created_at),
     query_created_at |-> PyTimestamp(q.created_at)]

\* get_queries_raw(user_id, days): the QueryRecords of the user when one is
\* given, of the window when days is given, in stored order
get_queries_raw(db, user_id, days, t) ==
    LET rows == SelectSeq(WindowRows(db, days, t),
                          LAMBDA r : TruthyStr(user_id) => r.user_id = user_id)
    IN [i \in 1..Len(rows) |-> QueryDict(rows[i])]

\* get_errors_raw(days): the ErrorRecords of the window, in stored order
get_errors_raw(db, days, t) ==
    LET rows == ErrorRows(db, days, t)
    IN [i \in 1..Len(rows) |-> ErrorDict(rows[i])]

\* get_document_usage_raw(days): the DocumentUsageRecords whose query is in
\* the window, each with the fields of its query, in stored order
get_document_usage_raw(db, days, t) ==
    LET rows == UsageRows(db, days, t)
        owner(du) == CHOOSE q \in Range(db.queries) : q.id = du.query_id
    IN [i \in 1..Len(rows) |-> UsageDict(rows[i], owner(rows[i]))]

\* the branch on data_type passing user_id to every raw list
ExportRecordsUserScoped(db, data_type, user_id, days, t) ==
    LET mine(records) ==
            SelectSeq(records, LAMBDA d : TruthyStr(user_id) =>
                                             d.user_id = PyOptStr(user_id))
    IN IF data_type = "queries" THEN get_queries_raw(db, user_id, Some(days), t)
       ELSE IF data_type = "errors" THEN mine(get_errors_raw(db, Some(days), t))
       ELSE mine(get_document_usage_raw(db, Some(days), t))

\* the branch on data_type of export_metrics_data: get_queries_raw(user_id=
\* user_id, days=days), get_errors_raw(days=days) or
\* get_document_usage_raw(days=days)
ExportRecords(db, data_type, user_id, days, t) ==
    IF data_type = "queries" THEN get_queries_raw(db, user_id, Some(days), t)
    ELSE IF data_type = "errors" THEN get_errors_raw(db, Some(days), t)
    ELSE get_document_usage_raw(db, Some(days), t)

\* json.dumps of a str: the text with quote, backslash and line breaks escaped
JsonEscape(text) ==
    Flatten([i \in 1..Len(text) |->
        IF text[i] = DQuote THEN <<Backslash, DQuote>>
        ELSE IF text[i] = Backslash THEN <<Backslash, Backslash>>
        ELSE IF text[i] = LF THEN <<Backslash, "n">>
        ELSE IF text[i] = CR THEN <<Backslash, "r">>
        ELSE <<text[i]>>])

\* the text a JSON string literal stands for
RECURSIVE JsonUnescape(_)
JsonUnescape(text) ==
    IF text = <<>> THEN <<>>
    ELSE IF Head(text) = Backslash /\ Len(text) >= 2
    THEN <<IF text[2] = "n" THEN LF ELSE IF text[2] = "r" THEN CR ELSE text[2]>>
         \o JsonUnescape(Tail(Tail(text)))
    ELSE <<Head(text)>> \o JsonUnescape(Tail(text))

\* one value as JSONResponse.render writes it
JsonValue(value) ==
    IF value.k = "NoneType" THEN Tok("null")
    ELSE IF value.k = "bool" THEN Tok(IF value.v = <<"True">> THEN "true" ELSE "false")
    ELSE IF value.k = "str" THEN StrTok(JsonEscape(value.v))
    ELSE NumTok(value.v)

RECURSIVE JoinTok(_)
JoinTok(parts) ==
    IF parts = <<>> THEN <<>>
    ELSE IF Len(parts) = 1 THEN parts[1]
    ELSE parts[1] \o <<Tok(",")>> \o JoinTok(Tail(parts))

\* one record as a JSON object
JsonObject(record) ==
    LET keys == SetToSeq(DOMAIN record)
    IN <<Tok("{")>>
       \o JoinTok([i \in 1..Len(keys) |->
                     <<StrTok(JsonEscape(Chars(keys[i]))), Tok(":"),
                       JsonValue(record[keys[i]])>>])
       \o <<Tok("}")>>

\* the body written with the records in reverse order
JsonRenderReversed(records) ==
    LET n == Len(records)
    IN <<Tok("[")>>
       \o JoinTok([i \in 1..n |-> JsonObject(records[n + 1 - i])])
       \o <<Tok("]")>>

\* JSONResponse(content=records): json.dumps of the list, as JSON tokens
JsonRender(records) ==
    <<Tok("[")>>
    \o JoinTok([i \in 1..Len(records) |-> JsonObject(records[i])])
    \o <<Tok("]")>>

\* f"{data_type}_metrics_{days}d.{export_format}"
ExportFilename(data_type, days, export_format) ==
    <<data_type, "_metrics_", ToString(days), "d.", export_format>>

\* f'attachment; filename="{filename}"'
ContentDisposition(filename) ==
    <<"attachment; filename=", DQuote>> \o filename \o <<DQuote>>

\* export_metrics_data(data_type, export_format, user_id, days); fails: the
\* storage is unavailable when the records are read
export_metrics_data(db, data_type, export_format, user_id, days, t, fails) ==
    LET st == init_metrics_db(db)
        records == ExportRecords(db, data_type, user_id, days, t)
        headers == ContentDisposition(ExportFilename(data_type, days, export_format))
    IN IF fails \/ st.raised
       THEN [metrics_db |-> db, records |-> <<>>,
             response |-> [status |-> 500, content_disposition |-> None,
                           media_type |-> "application/json",
                           json |-> None, text |-> None]]
       ELSE [metrics_db |-> [db EXCEPT !.schema = st.schema], records |-> records,
             response |->
                IF export_format = "json"
                THEN [status |-> 200, content_disposition |-> Some(headers),
                      media_type |-> "application/json",
                      json |-> Some(JsonRender(records)), text |-> None]
                ELSE [status |-> 200, content_disposition |-> Some(headers),
                      media_type |-> "text/csv",
                      json |-> None,
                      text |-> Some(serialize_to_csv(records, FieldNames(data_type)))]]

ExportDataTypes == {"queries", "errors", "documents"}
ExportFormats == {"json", "csv"}
ExportUserIds == {None, Some("alice")}
\* days: the default and the least value the endpoint accepts
ExportDays == {1, 30}

\* the requests made: every data_type in every format with the defaults of
\* user_id and days, and every data_type as CSV for a user and one day
ExportRequests ==
    [data_type : ExportDataTypes, export_format : ExportFormats,
     user_id : {None}, days : {30}]
    \cup [data_type : ExportDataTypes, export_format : {"csv"},
          user_id : {Some("alice")}, days : {1}]

\* a GET /metrics/export request: the handler inside the middleware; the
\* storage fails for one of the requests, whose parameters play no part in
\* the failure
Export ==
    \E q \in ExportRequests, fails \in BOOLEAN, error_fails \in BOOLEAN :
        LET h == export_metrics_data(metrics_db, q.data_type, q.export_format,
                                     q.user_id, q.days, now, fails)
            d == dispatch(h.metrics_db, "/metrics/export", AsCallNext(h.response),
                          error_fails, now)
        IN /\ fails => /\ Len(metrics_db.errors) < MaxErrors
                       /\ q.data_type = "queries" /\ q.export_format = "json"
           /\ error_fails => fails
           /\ metrics_db' = d.metrics_db
           /\ last' = [op |-> "export", data_type |-> q.data_type,
                       export_format |-> q.export_format, user_id |-> q.user_id,
                       days |-> q.days, at |-> now, records |-> h.records,
                       response |-> h.response, calls |-> d.calls]
           /\ UNCHANGED <<history_db, now, proc, lock>>

ExportErrorArgs ==
    [user_id : {None}, endpoint : {"/query"}, error_type : {"HTTP_500"},
     error_message : {"say \"hi\"\nc:\\x"},
     status_code : {Some(500)}]
    \cup [user_id : {Some("alice")}, endpoint : {"/query"}, error_type : {"HTTP_500"},
          error_message : {"a,b"}, status_code : {None}]
ExportQueryArgs ==
    QueryArgs({None}, {TRUE}, {<<Entry(Some("a.pdf"), Some(1))>>})

ExportErrorCalls == RecordError(ExportErrorArgs)
ExportQueryCalls == RecordQuery(ExportQueryArgs)
NextExport ==
    \/ ExportErrorCalls
    \/ ExportQueryCalls
    \/ Export

SpecExport == Init /\ [][NextExport]_vars

\* the value a JSON token stands for
JsonLoadValue(tok) ==
    IF tok.t = "null" THEN PyNone
    ELSE IF tok.t = "true" THEN PyBool(TRUE)
    ELSE IF tok.t = "false" THEN PyBool(FALSE)
    ELSE IF tok.t = "string" THEN [k |-> "str", v |-> JsonUnescape(tok.v[1])]
    ELSE [k |-> IF ".0" \in Range(tok.v[1]) THEN "float" ELSE "int", v |-> tok.v[1]]

\* the positions of toks that hold the token t
TokensAt(toks, t) == SelectSeq([i \in 1..Len(toks) |-> i], LAMBDA i : toks[i] = Tok(t))

\* the dict an object stands for; toks are its tokens after the "{" and
\* before the "}"
JsonLoadObject(toks) ==
    LET members == IF toks = <<>> THEN <<>> ELSE Pieces(toks, TokensAt(toks, ","))
        key(m) == JsonUnescape(m[1].v[1])[1]
    IN [name \in {key(members[i]) : i \in 1..Len(members)} |->
          JsonLoadValue((CHOOSE m \in Range(members) : key(m) = name)[3])]

\* the list of dicts a JSON text stands for
JsonLoads(toks) ==
    LET inner == Slice(toks, 2, Len(toks) - 1)
        objects == Pieces(inner, TokensAt(inner, "}"))
    IN [i \in 1..(Len(objects) - 1) |->
          LET o == objects[i]
              open == TokensAt(o, "{")[1]
          IN JsonLoadObject(Slice(o, open + 1, Len(o)))]

\* C23: every export that answers carries the header Content-Disposition:
\* attachment; filename="{data_type}_metrics_{days}d.{format}", and the body
\* of a JSON export reads back as the list of records the raw function
\* returned for the data_type: as many records, in the same order, each with
\* the same fields and values.
C23_JsonExport ==
    (last.op = "export" /\ last.response.status = 200) =>
        /\ last.response.content_disposition =
              Some(<<"attachment; filename=", DQuote,
                     last.data_type, "_metrics_", ToString(last.days), "d.",
                     last.export_format, DQuote>>)
        /\ last.records = ExportRecords(metrics_db, last.data_type, last.user_id,
                                        last.days, last.at)
        /\ last.export_format = "json" =>
              /\ last.response.json # None
              /\ JsonLoads(last.response.json[1]) = last.records
        /\ last.export_format = "csv" => last.response.text # None

\* C23's case: a JSON export of two error records, one with quotes, a line
\* break and a backslash in its message
C23_Witness ==
    /\ last.op = "export"
    /\ last.response.status = 200
    /\ last.export_format = "json"
    /\ last.data_type = "errors"
    /\ Len(last.records) = 2
    /\ last.records[1] # last.records[2]
    /\ \E i \in 1..2 : \E j \in 1..Len(last.records[i].error_message.v) :
          last.records[i].error_message.v[j] \in {DQuote, LF, Backslash}

\* C23's case for a CSV export and for documents
C23_WitnessCsv ==
    /\ last.op = "export"
    /\ last.response.status = 200
    /\ last.export_format = "csv"
    /\ last.data_type = "documents"
    /\ last.days = 30
    /\ Len(last.records) >= 1

\* the responses of the export for a user_id on the current store
ExportOf(data_type, export_format, user_id, days) ==
    export_metrics_data(metrics_db, data_type, export_format, user_id, days,
                        now, FALSE).response

\* C24: on every store state, for data_type errors and documents, with the
\* same days and format, the export gives the same response for every
\* user_id, absent or given.
C24_UserIdOnlyForQueries ==
    \A data_type \in {"errors", "documents"}, export_format \in ExportFormats,
       days \in ExportDays, u1 \in ExportUserIds, u2 \in ExportUserIds :
        ExportOf(data_type, export_format, u1, days)
            = ExportOf(data_type, export_format, u2, days)

\* C24's case: errors and documents of alice and of no user are stored and
\* an export of errors was made for alice, which returned every record
C24_Witness ==
    /\ last.op = "export"
    /\ last.response.status = 200
    /\ last.data_type = "errors"
    /\ last.user_id = Some("alice")
    /\ Len(last.records) = 2
    /\ \E i \in 1..2 : last.records[i].user_id = PyNone
    /\ \E i \in 1..2 : last.records[i].user_id = PyStr("alice")
    /\ ExportOf("queries", "json", Some("alice"), 30)
          # ExportOf("queries", "json", None, 30)

\* C24's case for documents: the usage of two queries made without user,
\* exported for alice
C24_WitnessDocuments ==
    /\ last.op = "export"
    /\ last.response.status = 200
    /\ last.data_type = "documents"
    /\ last.user_id = Some("alice")
    /\ Len(last.records) = 2
    /\ \A i \in 1..2 : last.records[i].user_id = PyNone

-----------------------------------------------------------------------------
(* The connections of an operation.  Every operation but init_metrics_db    *)
(* and init_history_db first calls the init function of its store, which    *)
(* opens a connection, runs its DDL and commits inside try, and closes in   *)
(* finally; then it opens its own connection, runs its statements inside    *)
(* try, and closes in finally.  proc[p] holds the caller's position: the    *)
(* operation, the statement it is at, whether an exception is propagating,  *)
(* and the number of connections the operation has opened and not closed.   *)

MetricsOps ==
    {"init_metrics_db", "record_query", "record_error", "get_query_stats",
     "get_user_stats", "get_top_users", "get_top_documents", "get_error_stats",
     "get_time_series_data"}
HistoryOps ==
    {"init_history_db", "save_conversation", "get_conversation_history",
     "delete_conversation_history", "get_conversation_count"}
ConnOps == MetricsOps \cup HistoryOps

ConnQueryArgs ==
    CHOOSE a \in QueryArgs({Some("alice")}, {TRUE}, {<<Entry(Some("a.pdf"), Some(1))>>}) : TRUE
ConnErrorArgs == CHOOSE a \in ErrorArgs({"/query"}, {"HTTP_500"}) : TRUE
ConnConversationArgs ==
    CHOOSE a \in ConversationArgs : a.user_id = "alice" /\ a.sources # <<>>

\* the statements in the try block of the init function of op's store: the
\* DDL statements and conn.commit()
InitStatements(op) ==
    IF op \in MetricsOps THEN Len(MetricsDdl) + 1 ELSE Len(HistoryDdl) + 1

\* the statements in op's own try block that can raise: the executes and,
\* for a write, conn.commit()
BodyStatements(op) ==
    CASE op = "record_query" -> Len(ConnQueryArgs.sources) + 2
      [] op = "record_error" -> 2
      [] op = "get_query_stats" -> 6
      [] op = "get_user_stats" -> 6
      [] op = "get_error_stats" -> 3
      [] op = "save_conversation" -> 2
      [] op = "delete_conversation_history" -> 2
      [] op \in {"init_metrics_db", "init_history_db"} -> 0
      [] OTHER -> 1

\* a clause that closes the connection only when no exception is propagating
CloseUnlessRaised(open, raised) == IF raised THEN open ELSE open - 1

\* finally: conn.close()
FinallyClose(open, raised) == open - 1

\* what op's commit leaves in the stores
ConnCommit(op, mdb, hdb, t) ==
    CASE op = "record_query" ->
            [metrics_db |-> RecordQueryTxn(mdb, ConnQueryArgs, t, 0).db, history_db |-> hdb]
      [] op = "record_error" ->
            [metrics_db |-> Commit(mdb, InsertError(mdb, ConnErrorArgs, t)), history_db |-> hdb]
      [] op = "save_conversation" ->
            [metrics_db |-> mdb, history_db |-> SaveConversation(hdb, ConnConversationArgs, t).db]
      [] op = "delete_conversation_history" ->
            [metrics_db |-> mdb, history_db |-> DeleteConversations(hdb, "alice").db]
      [] OTHER -> [metrics_db |-> mdb, history_db |-> hdb]

\* the caller is back from op
ConnExit(p, raised, open) ==
    /\ proc' = [proc EXCEPT ![p] = Idle]
    /\ last' = [op |-> proc[p].op, by |-> p, raised |-> raised, open |-> open]

\* op is called
ConnCall(p) ==
    /\ proc[p].pc = "idle"
    /\ \E op \in ConnOps :
          /\ op = "record_query" => Len(metrics_db.queries) < MaxQueries
          /\ op = "record_error" => Len(metrics_db.errors) < MaxErrors
          /\ op = "save_conversation" => history_db.seq < MaxConversations
          /\ proc' = [proc EXCEPT ![p] =
                         [pc |-> "init_connect", op |-> op, k |-> 0,
                          raised |-> FALSE, open |-> 0]]
    /\ UNCHANGED <<metrics_db, history_db, now, last, lock>>

\* get_db_connection(): sqlite3.connect returns a connection, or raises
\* and the exception leaves the operation
ConnConnect(p) ==
    /\ proc[p].pc \in {"init_connect", "connect"}
    /\ \/ /\ proc' = [proc EXCEPT ![p].pc = IF @ = "init_connect" THEN "init_try" ELSE "try",
                                  ![p].k = 1,
                                  ![p].open = @ + 1]
          /\ last' = last
       \/ ConnExit(p, TRUE, proc[p].open)
    /\ UNCHANGED <<metrics_db, history_db, now, lock>>

\* the next statement of the try block: it succeeds, the last one of the
\* init function committing the schema and the last one of a write its
\* rows, or it raises; either way finally is next after the block
ConnStatement(p) ==
    /\ proc[p].pc \in {"init_try", "try"}
    /\ LET init == proc[p].pc = "init_try"
           n == IF init THEN InitStatements(proc[p].op) ELSE BodyStatements(proc[p].op)
           after == IF init THEN "init_finally" ELSE "finally"
           c == ConnCommit(proc[p].op, metrics_db, history_db, now)
       IN \/ /\ proc[p].k < n
             /\ proc' = [proc EXCEPT ![p].k = @ + 1]
             /\ UNCHANGED <<metrics_db, history_db>>
          \/ /\ proc[p].k = n
             /\ proc' = [proc EXCEPT ![p].pc = after]
             /\ IF init
                THEN /\ metrics_db' =
                          IF proc[p].op \in MetricsOps
                          THEN [metrics_db EXCEPT !.schema = init_metrics_db(metrics_db).schema]
                          ELSE metrics_db
                     /\ history_db' =
                          IF proc[p].op \in HistoryOps
                          THEN [history_db EXCEPT !.schema = init_history_db(history_db).schema]
                          ELSE history_db
                ELSE /\ metrics_db' = c.metrics_db
                     /\ history_db' = c.history_db
          \/ /\ proc' = [proc EXCEPT ![p].pc = after, ![p].raised = TRUE]
             /\ UNCHANGED <<metrics_db, history_db>>
    /\ UNCHANGED <<now, last, lock>>

\* the finally clause: the connection is closed; after the init function
\* the operation goes on to its own connection unless the init function
\* raised or is the operation itself
ConnFinally(p) ==
    /\ proc[p].pc \in {"init_finally", "finally"}
    /\ LET open == FinallyClose(proc[p].open, proc[p].raised)
       IN IF /\ proc[p].pc = "init_finally"
             /\ ~proc[p].raised
             /\ BodyStatements(proc[p].op) > 0
          THEN /\ proc' = [proc EXCEPT ![p].pc = "connect", ![p].open = open]
               /\ last' = last
          ELSE ConnExit(p, proc[p].raised, open)
    /\ UNCHANGED <<metrics_db, history_db, now, lock>>

ConnCaller == "w1"

NextConn ==
    \/ ConnCall(ConnCaller)
    \/ ConnConnect(ConnCaller)
    \/ ConnStatement(ConnCaller)
    \/ ConnFinally(ConnCaller)

SpecConn == Init /\ [][NextConn]_vars

\* C25: whenever an operation has returned or raised, none of the
\* connections it opened is still open; while it runs it holds at most one,
\* and between calls the caller holds none.
C25_ConnectionsReleased ==
    /\ last.op \in ConnOps => last.open = 0
    /\ \A p \in Procs :
          proc[p].pc # "idle" =>
              /\ proc[p].open \in {0, 1}
              /\ proc[p].pc \in {"init_connect", "connect"} => proc[p].open = 0

\* C25's case: record_query raised in its own try block, after the init
\* function had returned
C25_Witness ==
    /\ last.op = "record_query"
    /\ last.raised
    /\ proc[ConnCaller].pc = "idle"
    /\ metrics_db.schema # {}
    /\ Len(metrics_db.queries) = 1

\* C25's case: an init function raised inside a history operation
C25_WitnessInit ==
    /\ last.op = "save_conversation"
    /\ last.raised
    /\ history_db.schema = {}

\* C25's case: an aggregation returned
C25_WitnessReturned ==
    /\ last.op = "get_query_stats"
    /\ ~last.raised
    /\ Len(metrics_db.errors) = 1

-----------------------------------------------------------------------------
(* Callers that run their first operation at the same time.  Every DDL      *)
(* statement of an init function is a transaction of its own, so the        *)
(* statements of two callers interleave; a write, from its INSERT to its    *)
(* commit, holds the store's write lock and is one step for the others.     *)

FirstUseOps == {"record_query", "record_error", "save_conversation"}

\* the DDL statements of the init function op calls
DdlOf(op) == IF op = "save_conversation" THEN HistoryDdl ELSE MetricsDdl

\* the table op inserts into
TableOf(op) ==
    IF op = "record_query" THEN "queries"
    ELSE IF op = "record_error" THEN "errors"
    ELSE "conversations"

\* op is called; first: the store it uses has no schema at that moment
FirstCall(p) ==
    /\ proc[p].pc = "idle"
    /\ \E op \in FirstUseOps :
          /\ op = "record_query" =>
                Len(metrics_db.queries)
                  + Cardinality({q \in Procs : proc[q].pc # "idle" /\ proc[q].op = op})
                  < MaxQueries
          /\ op = "record_error" =>
                Len(metrics_db.errors)
                  + Cardinality({q \in Procs : proc[q].pc # "idle" /\ proc[q].op = op})
                  < MaxErrors
          /\ op = "save_conversation" =>
                history_db.seq
                  + Cardinality({q \in Procs : proc[q].pc # "idle" /\ proc[q].op = op})
                  < MaxConversations
          /\ proc' = [proc EXCEPT ![p] =
                [pc |-> "ddl", op |-> op, k |-> 1,
                 first |-> IF op = "save_conversation" THEN history_db.schema = {}
                           ELSE metrics_db.schema = {}]]
    /\ UNCHANGED <<metrics_db, history_db, now, last, lock>>

\* the next DDL statement of the init function, committed on its own; when
\* it raises, the exception leaves the operation
FirstDdl(p) ==
    /\ proc[p].pc = "ddl"
    /\ LET op == proc[p].op
           history == op = "save_conversation"
           ddl == DdlOf(op)
           st == CreateIfNotExists(
                    [schema |-> IF history THEN history_db.schema ELSE metrics_db.schema,
                     raised |-> FALSE],
                    ddl[proc[p].k])
       IN /\ metrics_db' = IF history THEN metrics_db
                           ELSE [metrics_db EXCEPT !.schema = st.schema]
          /\ history_db' = IF history THEN [history_db EXCEPT !.schema = st.schema]
                           ELSE history_db
          /\ IF st.raised
             THEN /\ proc' = [proc EXCEPT ![p] = Idle]
                  /\ last' = [op |-> op, by |-> p, first |-> proc[p].first,
                              raised |-> TRUE, id |-> None]
             ELSE /\ proc' = [proc EXCEPT ![p].k = @ + 1,
                                          ![p].pc = IF proc[p].k = Len(ddl) THEN "write" ELSE "ddl"]
                  /\ last' = last
    /\ UNCHANGED <<now, lock>>

\* the operation's own transaction: the INSERTs and the commit; the INSERT
\* raises when its table does not exist
FirstWrite(p) ==
    /\ proc[p].pc = "write"
    /\ LET op == proc[p].op
           missing == IF op = "save_conversation"
                      THEN TableOf(op) \notin history_db.schema
                      ELSE TableOf(op) \notin metrics_db.schema
           q == RecordQueryTxn(metrics_db, ConnQueryArgs, now, 0)
           e == Commit(metrics_db, InsertError(metrics_db, ConnErrorArgs, now))
           c == SaveConversation(history_db, ConnConversationArgs, now)
       IN /\ metrics_db' = IF missing THEN metrics_db
                           ELSE IF op = "record_query" THEN q.db
                           ELSE IF op = "record_error" THEN e
                           ELSE metrics_db
          /\ history_db' = IF ~missing /\ op = "save_conversation" THEN c.db
                           ELSE history_db
          /\ last' = [op |-> op, by |-> p, first |-> proc[p].first,
                      raised |-> missing,
                      id |-> IF missing THEN None
                             ELSE IF op = "record_query" THEN q.id
                             ELSE IF op = "record_error" THEN Some(e.errors[Len(e.errors)].id)
                             ELSE c.id]
    /\ proc' = [proc EXCEPT ![p] = Idle]
    /\ UNCHANGED <<now, lock>>

NextFirstUse ==
    \/ \E p \in Procs : FirstCall(p)
    \/ \E p \in Procs : FirstDdl(p)
    \/ \E p \in Procs : FirstWrite(p)

SpecFirstUse == Init /\ [][NextFirstUse]_vars

\* the rows of op's table in the stores
StoredIn(op, mdb, hdb) ==
    IF op = "record_query" THEN mdb.queries
    ELSE IF op = "record_error" THEN mdb.errors
    ELSE hdb.conversations

\* C26: however the DDL statements of the callers interleave, no
\* initialisation raises; when a caller's initialisation is complete the
\* tables and indexes of its store are exactly those one initialisation of
\* an empty store creates; and the write that follows is stored: the call
\* returns the id of a new row of its table.
C26_ConcurrentFirstUse ==
    [][\A p \in Procs :
          /\ (proc[p].pc = "ddl" /\ proc'[p].pc = "idle") => FALSE
          /\ (proc[p].pc = "ddl" /\ proc'[p].pc = "write") =>
                IF proc[p].op = "save_conversation"
                THEN history_db'.schema = init_history_db(EmptyHistoryDb).schema
                ELSE metrics_db'.schema = init_metrics_db(EmptyMetricsDb).schema
          /\ (proc[p].pc = "write" /\ proc'[p].pc = "idle") =>
                LET before == StoredIn(proc[p].op, metrics_db, history_db)
                    after == StoredIn(proc[p].op, metrics_db', history_db')
                IN /\ last'.by = p
                   /\ ~last'.raised
                   /\ Len(after) = Len(before) + 1
                   /\ SubSeq(after, 1, Len(before)) = before
                   /\ last'.id = Some(after[Len(after)].id)]_vars

\* C26's case: two callers that both started on a store with no schema;
\* one has returned from its write while the other, whose initialisation
\* ran in between, is about to write
C26_Witness ==
    /\ last.op = "record_query"
    /\ last.by = "w1"
    /\ last.first
    /\ ~last.raised
    /\ proc["w2"].pc = "write"
    /\ proc["w2"].op = "record_error"
    /\ proc["w2"].first
    /\ metrics_db.errors = <<>>

\* C26's case while the DDL statements interleave: both callers are inside
\* the init function, each having created part of the schema
C26_WitnessInterleaved ==
    /\ proc["w1"].pc = "ddl" /\ proc["w1"].first /\ proc["w1"].k = 4
    /\ proc["w2"].pc = "ddl" /\ proc["w2"].first /\ proc["w2"].k = 3
    /\ proc["w1"].op = "record_query"
    /\ proc["w2"].op = "record_query"
    /\ Cardinality(metrics_db.schema) = 3

\* C26's case for the history store
C26_WitnessHistory ==
    /\ last.op = "save_conversation"
    /\ last.first
    /\ ~last.raised
    /\ proc["w2"].pc = "write"
    /\ proc["w2"].op = "save_conversation"
    /\ proc["w2"].first

-----------------------------------------------------------------------------
(* get_query_stats statement by statement, beside a caller of record_query. *)
(* The connection is in autocommit mode for SELECT: every statement reads   *)
(* the rows committed when it runs and evaluates datetime('now') itself.    *)
(* proc[StatsReader] holds the reader's position and, once the call is      *)
(* over, its outcome.                                                       *)

StatsReader == "w1"

StatsConcArgs ==
    QueryArgs({Some("alice")}, BOOLEAN, {<<>>})

\* the statement of get_query_stats with the given tail after where_sql
StatsSql(user_id, days, tail) == WhereSql(WhereClauses(user_id, days)) \o tail

\* SELECT COUNT(*) as count FROM queries {where_sql}{tail}, run at time t
CountQueries(db, user_id, days, tail, t) ==
    Len(SelectQueries(db, StatsSql(user_id, days, tail),
                      [user_id |-> user_id, days |-> days], t))

\* get_query_stats(user_id, days) is called
QsCall ==
    /\ proc[StatsReader].pc \in {"idle", "returned", "raised"}
    /\ \E user_id \in {None, Some("alice")}, days \in {None, Some(MaxDays)} :
          proc' = [proc EXCEPT ![StatsReader] =
                      [pc |-> "init", user_id |-> user_id, days |-> days]]
    /\ UNCHANGED <<metrics_db, history_db, now, last, lock>>

\* init_metrics_db()
QsInit ==
    /\ proc[StatsReader].pc = "init"
    /\ metrics_db' = [metrics_db EXCEPT !.schema = init_metrics_db(metrics_db).schema]
    /\ proc' = [proc EXCEPT ![StatsReader].pc = "total"]
    /\ UNCHANGED <<history_db, now, last, lock>>

\* total_row: the first statement; without a filter the statements that
\* follow do not parse, and the second one raises
QsTotal ==
    /\ proc[StatsReader].pc = "total"
    /\ LET c == proc[StatsReader]
       IN proc' = [proc EXCEPT ![StatsReader] =
             [pc |-> "successful", user_id |-> c.user_id, days |-> c.days,
              total |-> CountQueries(metrics_db, c.user_id, c.days, <<>>, now),
              seen |-> <<Len(metrics_db.queries)>>, at |-> <<now>>]]
    /\ UNCHANGED <<metrics_db, history_db, now, last, lock>>

\* success_row
QsSuccessful ==
    /\ proc[StatsReader].pc = "successful"
    /\ LET c == proc[StatsReader]
       IN IF ~SqlParses(StatsSql(c.user_id, c.days, <<"AND", SuccessCond>>))
          THEN proc' = [proc EXCEPT ![StatsReader] =
                     [pc |-> "raised", user_id |-> c.user_id, days |-> c.days,
                      result |-> OperationalError]]
          ELSE proc' = [proc EXCEPT ![StatsReader] =
                     [pc |-> "failed", user_id |-> c.user_id, days |-> c.days,
                      total |-> c.total,
                      successful |-> CountQueries(metrics_db, c.user_id, c.days,
                                                  <<"AND", SuccessCond>>, now),
                      seen |-> Append(c.seen, Len(metrics_db.queries)),
                      at |-> Append(c.at, now)]]
    /\ UNCHANGED <<metrics_db, history_db, now, last, lock>>

\* error_row
QsFailed ==
    /\ proc[StatsReader].pc = "failed"
    /\ LET c == proc[StatsReader]
       IN proc' = [proc EXCEPT ![StatsReader] =
             [pc |-> "rest", user_id |-> c.user_id, days |-> c.days,
              total |-> c.total, successful |-> c.successful,
              failed |-> CountQueries(metrics_db, c.user_id, c.days,
                                      <<"AND", FailedCond>>, now),
              seen |-> Append(c.seen, Len(metrics_db.queries)),
              at |-> Append(c.at, now)]]
    /\ UNCHANGED <<metrics_db, history_db, now, last, lock>>

\* avg_time_row, time_stats_row, top_k_row and the returned dict
QsRest ==
    /\ proc[StatsReader].pc = "rest"
    /\ LET c == proc[StatsReader]
           params == [user_id |-> c.user_id, days |-> c.days]
           ok_rows == SelectQueries(metrics_db,
                                    StatsSql(c.user_id, c.days, <<"AND", SuccessCond>>),
                                    params, now)
           all_rows == SelectQueries(metrics_db, StatsSql(c.user_id, c.days, <<>>),
                                     params, now)
           times == [i \in 1..Len(ok_rows) |-> ok_rows[i].response_time_ms]
       IN \E k \in MostUsedTopK(all_rows) :
             proc' = [proc EXCEPT ![StatsReader] =
                     [pc |-> "returned", user_id |-> c.user_id, days |-> c.days,
                      result |-> [raised |-> FALSE,
                                  error |-> "",
                                  total_queries |-> c.total,
                                  successful_queries |-> c.successful,
                                  failed_queries |-> c.failed,
                                  success_rate |-> SuccessRate(c.successful, c.total).rate,
                                  avg_response_time_ms |-> AvgOrZero(times),
                                  min_response_time_ms |-> MinOrZero(times),
                                  max_response_time_ms |-> MaxOrZero(times),
                                  most_used_top_k |-> k],
                      seen |-> c.seen, at |-> c.at]]
    /\ UNCHANGED <<metrics_db, history_db, now, last, lock>>

\* another caller's record_query commits
QsWrite ==
    /\ Len(metrics_db.queries) < MaxQueries
    /\ \E a \in StatsConcArgs :
          metrics_db' = record_query(metrics_db, a, now, 0).db
    /\ UNCHANGED <<history_db, now, last, proc, lock>>

NextStatsConc ==
    \/ Tick
    \/ QsCall
    \/ QsInit
    \/ QsTotal
    \/ QsSuccessful
    \/ QsFailed
    \/ QsRest
    \/ QsWrite

SpecStatsConc == Init /\ [][NextStatsConc]_vars

\* the last get_query_stats call has returned a result
StatsReturned == proc[StatsReader].pc = "returned"

\* that call, with its result
StatsCall == proc[StatsReader]

\* C27 as stated: every result returned has total_queries =
\* successful_queries + failed_queries, whatever commits between the count
\* statements.
C27_CountsAddUp ==
    StatsReturned =>
        StatsCall.result.total_queries
            = StatsCall.result.successful_queries + StatsCall.result.failed_queries

\* C27, for the calls it holds for: when no record_query committed between
\* the three count statements and, with a days window, the clock did not
\* advance between them, total_queries = successful_queries +
\* failed_queries.
C27_WithoutCommitBetween ==
    (/\ StatsReturned
     /\ StatsCall.seen[1] = StatsCall.seen[3]
     /\ StatsCall.days # None => StatsCall.at[1] = StatsCall.at[3]) =>
        StatsCall.result.total_queries
            = StatsCall.result.successful_queries + StatsCall.result.failed_queries

\* C27's case for the statement that holds: a call that counted one
\* successful and one failed query, with no commit in between
C27_Witness ==
    /\ StatsReturned
    /\ StatsCall.seen = <<2, 2, 2>>
    /\ StatsCall.result.total_queries = 2
    /\ StatsCall.result.successful_queries = 1
    /\ StatsCall.result.failed_queries = 1

\* the case of the statement as made: a successful query committed between
\* the first and the second count
C27_WitnessCommitBetween ==
    /\ StatsReturned
    /\ StatsCall.days = None
    /\ StatsCall.seen = <<1, 2, 2>>
    /\ StatsCall.result.total_queries = 1
    /\ StatsCall.result.successful_queries + StatsCall.result.failed_queries = 2

-----------------------------------------------------------------------------
(* The success flag and the error message of the QueryRecord a POST /query
   request writes, against what the caller received *)

\* the QueryRecords the step wrote
NewQueries == SubSeq(metrics_db'.queries, Len(metrics_db.queries) + 1,
                     Len(metrics_db'.queries))

\* C28: a QueryRecord written by POST /query has success = true only if the
\* request answered its caller successfully (status 200), and an error
\* message only if success = false; so a request that ends in HTTP 500 is
\* recorded with success = false.
C28_SuccessOnlyIfAnswered ==
    [][last'.op = "post_query" =>
         \A i \in 1..Len(NewQueries) :
            /\ NewQueries[i].success => last'.response.status = 200
            /\ NewQueries[i].error_message # None => ~NewQueries[i].success
            /\ last'.response.status = 500 => ~NewQueries[i].success]_vars

\* what the handler does write: success is false exactly when get_qa_chain
\* or chain.invoke raised, and the error message is present exactly when
\* the request ended in HTTP 500
C28_FlagFollowsInvoke ==
    [][last'.op = "post_query" =>
         \A i \in 1..Len(NewQueries) :
            /\ NewQueries[i].success = (last'.chain.kind # "raises")
            /\ (NewQueries[i].error_message # None) = (last'.response.status = 500)]_vars

\* the request that ended in HTTP 500 after chain.invoke had returned, and
\* its QueryRecord with success = true and an error message
C28_WitnessRaisedAfterInvoke ==
    /\ last.op = "post_query"
    /\ last.chain.kind = "bad_result"
    /\ last.response.status = 500
    /\ Len(metrics_db.queries) >= 1
    /\ metrics_db.queries[Len(metrics_db.queries)].success
    /\ metrics_db.queries[Len(metrics_db.queries)].error_message # None

-----------------------------------------------------------------------------
(* What delete_conversation_history leaves alone *)

\* every aggregation over the metrics store, asked at instant t with and
\* without a user filter
Aggregations(db, t) ==
    [query_stats |-> [u \in {None, Some("alice")} |->
                         get_query_stats(db, u, Some(MaxDays), t)],
     top_users |-> get_top_users(db, MaxLimit, None, t),
     top_documents |-> get_top_documents(db, MaxLimit, None, t),
     time_series |-> [u \in {None, Some("alice")} |->
                         get_time_series_data(db, MaxDays, u, t)],
     error_stats |-> get_error_stats(db, None, t, t, t)]

\* C29: a delete_conversation_history(u) step changes nothing but u's
\* ConversationRecords: the rows of every other user are the same and
\* get_conversation_history returns them as before, with and without a
\* limit; the QueryRecords, ErrorRecords and DocumentUsageRecords, those
\* recorded for u included, are the same; so every aggregation gives the
\* same result after the delete as before it.
C29_DeleteFrame ==
    [][last'.op = "delete_conversation_history" =>
         /\ \A v \in UserIds \ {last'.user_id} :
               /\ SelectSeq(history_db'.conversations, LAMBDA r : r.user_id = v)
                  = SelectSeq(history_db.conversations, LAMBDA r : r.user_id = v)
               /\ \A limit \in OptLimits :
                     get_conversation_history(history_db', v, limit)
                     = get_conversation_history(history_db, v, limit)
               /\ get_conversation_count(history_db', v)
                  = get_conversation_count(history_db, v)
         /\ history_db'.seq = history_db.seq
         /\ metrics_db'.queries = metrics_db.queries
         /\ metrics_db'.errors = metrics_db.errors
         /\ metrics_db'.document_usage = metrics_db.document_usage
         /\ metrics_db' = metrics_db
         /\ Aggregations(metrics_db', now') = Aggregations(metrics_db, now)]_vars

\* C29's case: alice's conversation was deleted while bob's is stored and
\* the metrics store holds a query recorded for alice, its document usage
\* and an error
C29_Witness ==
    /\ last.op = "delete_conversation_history"
    /\ last.user_id = "alice"
    /\ last.count >= 1
    /\ \E r \in Range(history_db.conversations) : r.user_id = "bob"
    /\ \E q \in Range(metrics_db.queries) : q.user_id = Some("alice")
    /\ Len(metrics_db.document_usage) >= 1
    /\ Len(metrics_db.errors) >= 1

-----------------------------------------------------------------------------
(* The ErrorRecords of the metrics middleware *)

\* the ErrorRecords the step wrote
NewErrors == SubSeq(metrics_db'.errors, Len(metrics_db.errors) + 1,
                    Len(metrics_db'.errors))

\* no recorder called in the request found the storage unavailable
StorageAvailable(calls) == \A c \in Range(calls) : ~c.raised

\* what the middleware records for a request to path that ended as result
\* says: one ErrorRecord for a response with status >= 400 and for an
\* exception, which is raised again; none for a response below 400
MiddlewareRecorded(path, result) ==
    /\ (result.kind = "response" /\ result.status >= 400) =>
          /\ Len(NewErrors) = 1
          /\ NewErrors[1].endpoint = path
          /\ NewErrors[1].user_id = None
          /\ NewErrors[1].status_code = Some(result.status)
          /\ result.status = 404 => NewErrors[1].error_type = "HTTP_404"
          /\ result.status = 500 => NewErrors[1].error_type = "HTTP_500"
    /\ result.kind = "exception" =>
          /\ Len(NewErrors) = 1
          /\ NewErrors[1].endpoint = path
          /\ NewErrors[1].user_id = None
          /\ NewErrors[1].status_code = Some(500)
          /\ NewErrors[1].error_type = result.type
          /\ NewErrors[1].error_message = result.message
    /\ (result.kind = "response" /\ result.status < 400) => NewErrors = <<>>

\* the middleware's part, for POST /query and for the other endpoint
MiddlewareRecords ==
    /\ (last'.op = "post_query" /\ StorageAvailable(last'.calls)) =>
          MiddlewareRecorded("/query", last'.result)
    /\ (last'.op = "dispatch" /\ StorageAvailable(last'.calls)) =>
          /\ MiddlewareRecorded("/metrics/export", last'.outcome)
          /\ last'.result = last'.outcome

\* a POST /query that ended in HTTP 500 wrote one QueryRecord and then one
\* ErrorRecord
FailedQueryThenError ==
    (last'.op = "post_query" /\ StorageAvailable(last'.calls)
        /\ last'.response.status = 500) =>
       /\ Len(NewQueries) = 1
       /\ Len(NewErrors) = 1
       /\ [i \in 1..Len(last'.calls) |-> last'.calls[i].fn]
          = <<"record_query", "record_error">>
       /\ NewQueries[1].created_at <= NewErrors[1].created_at

\* C30: with storage available the middleware records exactly one
\* ErrorRecord for every response with status >= 400 (endpoint the request
\* path, error_type HTTP_<status>, status_code the status, user_id null) and
\* for every request that ends in an unhandled exception (status_code 500,
\* error_type the exception type, the exception raised again), and none for
\* a response below 400; and a failed POST /query yields one QueryRecord
\* with success = false followed by one ErrorRecord.
C30_ErrorRecordPerFailure ==
    [][/\ MiddlewareRecords
       /\ FailedQueryThenError
       /\ (last'.op = "post_query" /\ StorageAvailable(last'.calls)
              /\ last'.response.status = 500) => ~NewQueries[1].success]_vars

\* C30 without the success flag of the QueryRecord: the ErrorRecords of the
\* middleware, and one QueryRecord followed by one ErrorRecord for a POST
\* /query that ended in HTTP 500
C30_MiddlewareRecords ==
    [][MiddlewareRecords /\ FailedQueryThenError]_vars

\* a POST /query that ended in HTTP 500 with storage available left a
\* QueryRecord with success = true followed by its ErrorRecord
C30_WitnessSuccessTrue ==
    /\ last.op = "post_query"
    /\ last.response.status = 500
    /\ StorageAvailable(last.calls)
    /\ metrics_db.queries # <<>> /\ metrics_db.errors # <<>>
    /\ metrics_db.queries[Len(metrics_db.queries)].success
    /\ metrics_db.errors[Len(metrics_db.errors)].endpoint = "/query"
    /\ metrics_db.errors[Len(metrics_db.errors)].error_type = "HTTP_500"

\* the middleware's cases on another endpoint: a 404 response recorded, an
\* exception recorded, and a 200 response with nothing recorded while
\* errors are stored
C30_WitnessNotFound ==
    /\ last.op = "dispatch"
    /\ last.outcome.kind = "response" /\ last.outcome.status = 404
    /\ StorageAvailable(last.calls)
    /\ metrics_db.errors # <<>>
    /\ metrics_db.errors[Len(metrics_db.errors)].error_type = "HTTP_404"

C30_WitnessException ==
    /\ last.op = "dispatch"
    /\ last.outcome.kind = "exception"
    /\ StorageAvailable(last.calls)
    /\ metrics_db.errors # <<>>
    /\ metrics_db.errors[Len(metrics_db.errors)].error_type = "TypeError"

C30_WitnessNoError ==
    /\ last.op = "dispatch"
    /\ last.outcome.kind = "response" /\ last.outcome.status = 200
    /\ last.calls = <<>>
    /\ Len(metrics_db.errors) = 1

=============================================================================
